---- MODULE Spec2Model ----
\* Property codec, unknown-checking proxy, secret-preserving proxy and
\* analyzer service (Analyze, AnalyzeStack, Remediate, Configure) of
\* pulumi_policy (sdk/python/lib/pulumi_policy), as state machines over
\* bounded property trees, requests and policy packs.
EXTENDS Integers, Sequences, FiniteSets, TLC

VARIABLES
    pc,             \* position of the scenario being run
    wire,           \* the wire property map handed to deserialize_properties
    proxy_secrets,  \* the proxy_secrets flag of the call
    typed,          \* a typed property map handed to serialize_properties
    decoded,        \* what deserialize_properties returned (or the error raised)
    encoded,        \* what serialize_properties returned (or the error raised)
    args_props,     \* the proxy handed to policy code as args.props (the root proxy)
    cursor,         \* keys and indices read from args_props to reach the proxy in hand
    op,             \* the last operation made on the proxy in hand
    ret,            \* what that operation returned (or the error raised)
    nwrites,        \* number of writes made through the proxy
    request,        \* request.resources of an AnalyzeStack call
    heap,           \* the PolicyResource objects created, in creation order
    intermediates,  \* the list intermediates of AnalyzeStack
    urns_to_resources, \* the dict urns_to_resources of AnalyzeStack
    resources,      \* the list resources handed to the stack validation
    loop_i,         \* number of iterations made of the loop being run
    rpc,            \* the call made on the analyzer service: Analyze or AnalyzeStack
    policies,       \* the policies of the policy pack, in order
    diagnostics,    \* the list diagnostics of the call
    response,       \* what the call returned (or the exception it raised)
    policy_pack_enforcement_level,        \* the servicer's field of that name
    policy_pack_config,                   \* the servicer's field of that name
    policy_pack_config_enforcement_level, \* the servicer's field of that name
    remediations,   \* the list remediations of a Remediate call
    received,       \* args.props as each remediation callback received it
    provider,       \* the provider resource's props handed to the callbacks
    awaitable_results, \* the list awaitable_results of validate: the coroutines
    awaited,        \* position in awaitable_results of the coroutine await_all awaits
    configure_call, \* the Configure call being handled by another worker, or None
    configured,     \* the requests of the Configure calls that have returned
    evaluation,     \* the locals of the loop iteration being made by the call
    evaluations     \* what each evaluation of a policy of the call was made with

codecVars == <<wire, proxy_secrets, typed, decoded, encoded>>
proxyVars == <<args_props, cursor, op, ret, nwrites>>
stackVars == <<request, heap, intermediates, urns_to_resources, resources, loop_i>>
analyzeVars == <<rpc, policies, diagnostics, response>>
servicerVars == <<policy_pack_enforcement_level, policy_pack_config,
                  policy_pack_config_enforcement_level>>
remediateVars == <<remediations, received, provider>>
awaitVars == <<awaitable_results, awaited>>
configureVars == <<configure_call, configured, evaluation, evaluations>>
callVars == <<servicerVars, remediateVars, awaitVars, configureVars>>
serviceVars == <<stackVars, analyzeVars, callVars>>
vars == <<pc, codecVars, proxyVars, serviceVars>>

-----------------------------------------------------------------------------
\* Bounds of the model.

\* Nesting depth of the generated property values below the top-level map.
MaxDepth == 2

\* Nesting depth of the property values wrapped by the unknown-checking proxy.
UnknownDepth == 2

\* Nesting depth of the property values read and written through the
\* secret-preserving proxy, and the number of writes made through it.
SecretDepth == 2
MaxWrites == 2

\* Number of resources in the request of an AnalyzeStack call.
MaxResources == 2

\* Number of policies in the policy pack.
MaxPolicies == 2

-----------------------------------------------------------------------------
\* Values. Every Python value is a record tagged by its runtime type in t.
\* A dict is a function from its keys to its values (dict equality ignores
\* insertion order); a list is a sequence.

None == [t |-> "NoneType"]
Str(s) == [t |-> "str", s |-> s]
IntV(n) == [t |-> "int", n |-> n]
Bool(b) == [t |-> "bool", b |-> b]
List(l) == [t |-> "list", l |-> l]
Dict(m) == [t |-> "dict", m |-> m]
EmptyMap == [k \in {} |-> None]
Map1(k, v) == [x \in {k} |-> v]
Map2(k1, v1, k2, v2) == [x \in {k1, k2} |-> IF x = k1 THEN v1 ELSE v2]
Map3(k1, v1, k2, v2, k3, v3) ==
    [x \in {k1, k2, k3} |-> IF x = k1 THEN v1 ELSE IF x = k2 THEN v2 ELSE v3]

\* pulumi.Asset and pulumi.Archive objects (constructed by the codec).
FileAsset(path) == [t |-> "FileAsset", path |-> path]
StringAsset(text) == [t |-> "StringAsset", text |-> text]
RemoteAsset(uri) == [t |-> "RemoteAsset", uri |-> uri]
AssetArchive(assets) == [t |-> "AssetArchive", assets |-> assets]
FileArchive(path) == [t |-> "FileArchive", path |-> path]
RemoteArchive(uri) == [t |-> "RemoteArchive", uri |-> uri]
IsAsset(v) == v.t \in {"FileAsset", "StringAsset", "RemoteAsset"}
IsArchive(v) == v.t \in {"AssetArchive", "FileArchive", "RemoteArchive"}

\* secret.Secret and the secret-preserving proxies; target is the backing
\* list or dict.
Secret(value) == [t |-> "Secret", value |-> value]
ListSecretsProxy(target) == [t |-> "_ListSecretsProxy", target |-> target]
DictSecretsProxy(target) == [t |-> "_DictSecretsProxy", target |-> target]

\* Exceptions, as the value an operation yields instead of returning.
AssertionError == [t |-> "AssertionError"]
TypeError == [t |-> "TypeError"]
KeyError == [t |-> "KeyError"]
IndexError == [t |-> "IndexError"]
IsError(v) == v.t \in {"AssertionError", "TypeError", "KeyError", "IndexError",
                       "UnknownValueError"}

\* The first error among the values of a function (a dict's values or a
\* list's elements), if any. All errors a single traversal can meet in this
\* model are of one kind, so which one is met first does not matter.
AnyError(f) == CHOOSE e \in {f[k] : k \in DOMAIN f} : IsError(e)
HasError(f) == \E k \in DOMAIN f : IsError(f[k])

SPECIAL_SIG_KEY == "4dabf18193072939515e22adb298388d"
SPECIAL_ASSET_SIG == "c44067f5952c0a294b673a41bacd8c17"
SPECIAL_ARCHIVE_SIG == "0def7320c3a5731c473e5ecbe6d01bc7"
SPECIAL_SECRET_SIG == "1b47061264138c4ac30d75fd1eb44270"

-----------------------------------------------------------------------------
\* proxy.py

UNKNOWN_BOOLEAN_VALUE == "1c4a061d-8072-4f0a-a4cb-0ff528b18fe7"
UNKNOWN_NUMBER_VALUE == "3eeb2bf0-c639-47a8-9e75-3b44932eb421"
UNKNOWN_STRING_VALUE == "04da6b54-80e4-46f7-96ec-b56ff0331ba9"
UNKNOWN_ARRAY_VALUE == "6a19a0b0-7e62-4c92-b797-7f8e31da9cc2"
UNKNOWN_ASSET_VALUE == "030794c1-ac77-496b-92df-f27374a8bd58"
UNKNOWN_ARCHIVE_VALUE == "e48ece36-62e2-4504-bad9-02848725956a"
UNKNOWN_OBJECT_VALUE == "dd056dcd-154b-4c76-9bd3-c8f88648b5ff"

UnknownValueError(unknown_type_sentinel, props) ==
    [t |-> "UnknownValueError", unknown_type_sentinel |-> unknown_type_sentinel,
     props |-> props]

\* The unknown-checking proxies: the wrapped children and the path of the
\* proxy from the root.
ListProxy(elems, props_acc) == [t |-> "_ListProxy", elems |-> elems, props_acc |-> props_acc]
DictProxy(d, props_acc) == [t |-> "_DictProxy", map |-> d, props_acc |-> props_acc]

\* _is_unknown with a fault: every string counts as unknown.
_is_unknown_AnyStr(o) == o.t = "str"

_is_unknown(o) ==
    /\ o.t = "str"
    /\ o.s \in {UNKNOWN_BOOLEAN_VALUE, UNKNOWN_NUMBER_VALUE, UNKNOWN_STRING_VALUE,
                UNKNOWN_ARRAY_VALUE, UNKNOWN_ASSET_VALUE, UNKNOWN_ARCHIVE_VALUE,
                UNKNOWN_OBJECT_VALUE}

\* str(key) of a dict key or a list index.
PyStr(key) == IF key.t = "str" THEN key.s ELSE ToString(key.n)

\* _append_prop with a fault: the accumulated path is dropped.
_append_prop_Dropped(props_acc, key) == <<PyStr(key)>>

_append_prop(props_acc, key) == Append(props_acc, PyStr(key))

_raise_if_unknown(key, val, props_acc) ==
    IF _is_unknown(val) THEN UnknownValueError(val.s, _append_prop(props_acc, key))
    ELSE val

RECURSIVE _proxy_helper(_, _)

_proxy_helper(to_proxy, props_acc) ==
    IF to_proxy.t = "list" THEN
        ListProxy([i \in DOMAIN to_proxy.l |->
                      _proxy_helper(to_proxy.l[i], _append_prop(props_acc, IntV(i - 1)))],
                  props_acc)
    ELSE IF to_proxy.t = "dict" THEN
        DictProxy([key \in DOMAIN to_proxy.m |->
                      _proxy_helper(to_proxy.m[key], _append_prop(props_acc, Str(key)))],
                  props_acc)
    ELSE to_proxy

unknown_checking_proxy(props) == _proxy_helper(props, <<>>)

\* list.__getitem__ / list.__setitem__ index resolution: the 1-based position
\* of Python index key in a list of length n, or 0 when out of range.
ListPos(key, n) ==
    IF key.n >= 0 /\ key.n < n THEN key.n + 1
    ELSE IF key.n < 0 /\ key.n >= -n THEN n + key.n + 1
    ELSE 0

\* _ListProxy.__getitem__ with a fault: the element is returned unchecked.
ListProxy_getitem_Unchecked(self, key) ==
    IF key.t # "int" THEN TypeError
    ELSE IF ListPos(key, Len(self.elems)) = 0 THEN IndexError
    ELSE self.elems[ListPos(key, Len(self.elems))]

ListProxy_getitem(self, key) ==
    IF key.t # "int" THEN TypeError
    ELSE IF ListPos(key, Len(self.elems)) = 0 THEN IndexError
    ELSE _raise_if_unknown(key, self.elems[ListPos(key, Len(self.elems))], self.props_acc)

ListProxy_len(self) == Len(self.elems)

DictProxy_getitem(self, key) ==
    IF key.t # "str" \/ key.s \notin DOMAIN self.map THEN KeyError
    ELSE _raise_if_unknown(key, self.map[key.s], self.props_acc)

DictProxy_len(self) == Cardinality(DOMAIN self.map)

\* key in proxy with a fault: the key is looked up among the keys and the
\* value is not read.
DictProxy_contains_ByKeys(self, key) == Bool(key.t = "str" /\ key.s \in DOMAIN self.map)

\* key in proxy of a _DictProxy, which defines no __contains__: the one of
\* Mapping reads self[key] and gives False if that raises KeyError.
DictProxy_contains(self, key) ==
    LET v == DictProxy_getitem(self, key)
    IN  IF v = KeyError THEN Bool(FALSE)
        ELSE IF IsError(v) THEN v
        ELSE Bool(TRUE)

\* The order in which a dict's keys are iterated. Python iterates a dict in
\* insertion order; the model's dicts are built with their keys inserted in
\* the order of KeyOrder.
KeyOrder == <<"a", "b", "k", "n", "x">>
IsKey(m, k) == k \in DOMAIN m
KeysOf(m) == SelectSeq(KeyOrder, LAMBDA k : IsKey(m, k))

\* iter(proxy) of a _DictProxy: the keys of the wrapped dict.
DictProxy_iter(self) == KeysOf(self.map)

Iteration(yielded, raised) == [t |-> "iteration", yielded |-> yielded, raised |-> raised]
Tuple(a, b) == [t |-> "tuple", l |-> <<a, b>>]

RECURSIVE ListProxy_iterate(_, _, _)
\* `for e in proxy` over a _ListProxy (Sequence.__iter__): self[0], self[1],
\* ... until IndexError ends the loop; any other exception leaves it.
ListProxy_iterate(self, i, yielded) ==
    LET v == ListProxy_getitem(self, IntV(i))
    IN  IF v.t = "IndexError" THEN Iteration(yielded, None)
        ELSE IF IsError(v) THEN Iteration(yielded, v)
        ELSE ListProxy_iterate(self, i + 1, Append(yielded, v))

RECURSIVE DictProxy_iterate(_, _, _, _)
\* `for v in proxy.values()` and `for k, v in proxy.items()` over a
\* _DictProxy (ValuesView / ItemsView): self[key] for each key of iter(self).
DictProxy_iterate(self, keys, items, yielded) ==
    IF keys = <<>> THEN Iteration(yielded, None)
    ELSE LET v == DictProxy_getitem(self, Str(Head(keys)))
         IN  IF IsError(v) THEN Iteration(yielded, v)
             ELSE DictProxy_iterate(self, Tail(keys), items,
                     Append(yielded, IF items THEN Tuple(Str(Head(keys)), v) ELSE v))

-----------------------------------------------------------------------------
\* secret.py

secrets_preserving_proxy(to_proxy) ==
    IF to_proxy.t = "list" THEN ListSecretsProxy(to_proxy)
    ELSE IF to_proxy.t = "dict" THEN DictSecretsProxy(to_proxy)
    ELSE to_proxy

\* key == element, as list.__contains__ evaluates it for a str or int key:
\* a bool element equals the int of its value; a Secret, a proxy, an Asset
\* or an Archive defines no equality with a str or an int.
PyEqKey(elem, key) ==
    \/ elem = key
    \/ elem.t = "bool" /\ key.t = "int" /\ key.n = (IF elem.b THEN 1 ELSE 0)

ListSecretsProxy_getitem(self, key) ==
    IF key = Str("__target") THEN self.target
    ELSE IF key.t # "int" THEN TypeError
    ELSE IF ListPos(key, Len(self.target.l)) = 0 THEN IndexError
    ELSE LET value == self.target.l[ListPos(key, Len(self.target.l))]
         IN  secrets_preserving_proxy(IF value.t = "Secret" THEN value.value ELSE value)

\* _ListSecretsProxy.__setitem__ with a fault: every value written is marked
\* secret.
ListSecretsProxy_setitem_AlwaysSecret(self, key, value) ==
    LET l == self.target.l
        pos == IF key.t = "int" THEN ListPos(key, Len(l)) ELSE 0
    IN  IF key.t # "int" THEN TypeError
        ELSE IF pos = 0 THEN IndexError
        ELSE ListSecretsProxy(List([l EXCEPT ![pos] = Secret(value)]))

\* __setitem__ mutates the backing list; the result is the proxy over the
\* mutated list, or the exception raised.
ListSecretsProxy_setitem(self, key, value) ==
    LET l == self.target.l
        found == \E i \in DOMAIN l : PyEqKey(l[i], key)
        pos == IF key.t = "int" THEN ListPos(key, Len(l)) ELSE 0
    IN  IF key.t # "int" THEN TypeError
        ELSE IF pos = 0 THEN IndexError
        ELSE LET stored == IF found /\ l[pos].t = "Secret" THEN Secret(value) ELSE value
             IN  ListSecretsProxy(List([l EXCEPT ![pos] = stored]))

ListSecretsProxy_len(self) == Len(self.target.l)

DictSecretsProxy_getitem(self, key) ==
    IF key = Str("__target") THEN self.target
    ELSE IF key.t # "str" \/ key.s \notin DOMAIN self.target.m THEN KeyError
    ELSE LET value == self.target.m[key.s]
         IN  secrets_preserving_proxy(IF value.t = "Secret" THEN value.value ELSE value)

\* _DictSecretsProxy.__setitem__ with a fault: the value is stored as given.
DictSecretsProxy_setitem_Plain(self, key, value) ==
    DictSecretsProxy(Dict([k \in DOMAIN self.target.m \cup {key.s} |->
                              IF k = key.s THEN value ELSE self.target.m[k]]))

\* __setitem__ mutates the backing dict; the result is the proxy over the
\* mutated dict.
DictSecretsProxy_setitem(self, key, value) ==
    LET m == self.target.m
        stored == IF key.s \in DOMAIN m /\ m[key.s].t = "Secret" THEN Secret(value)
                  ELSE value
    IN  DictSecretsProxy(Dict([k \in DOMAIN m \cup {key.s} |->
                                  IF k = key.s THEN stored ELSE m[k]]))

DictSecretsProxy_len(self) == Cardinality(DOMAIN self.target.m)

-----------------------------------------------------------------------------
\* deserialize.py: decoding

RECURSIVE _deserialize_property(_, _)

\* _deserialize_asset with a fault: a uri is taken for a path.
_deserialize_asset_UriAsPath(prop) ==
    IF "path" \in DOMAIN prop.m THEN FileAsset(prop.m["path"])
    ELSE IF "text" \in DOMAIN prop.m THEN StringAsset(prop.m["text"])
    ELSE IF "uri" \in DOMAIN prop.m THEN FileAsset(prop.m["uri"])
    ELSE AssertionError

_deserialize_asset(prop) ==
    IF "path" \in DOMAIN prop.m THEN FileAsset(prop.m["path"])
    ELSE IF "text" \in DOMAIN prop.m THEN StringAsset(prop.m["text"])
    ELSE IF "uri" \in DOMAIN prop.m THEN RemoteAsset(prop.m["uri"])
    ELSE AssertionError

\* _deserialize_archive with a fault: only Assets, not Archives, are accepted
\* as an AssetArchive's assets.
_deserialize_archive_AssetsOnly(prop, ps) ==
    IF "assets" \in DOMAIN prop.m THEN
        LET src == prop.m["assets"].m
            assets == [key \in DOMAIN src |-> _deserialize_property(src[key], ps)]
        IN  IF HasError(assets) THEN AnyError(assets)
            ELSE IF \E key \in DOMAIN assets : ~IsAsset(assets[key])
            THEN AssertionError
            ELSE AssetArchive(assets)
    ELSE IF "path" \in DOMAIN prop.m THEN FileArchive(prop.m["path"])
    ELSE IF "uri" \in DOMAIN prop.m THEN RemoteArchive(prop.m["uri"])
    ELSE AssertionError

\* _deserialize_archive with a fault: path is looked for before assets.
_deserialize_archive_PathFirst(prop, ps) ==
    IF "path" \in DOMAIN prop.m THEN FileArchive(prop.m["path"])
    ELSE IF "assets" \in DOMAIN prop.m THEN
        LET src == prop.m["assets"].m
            assets == [key \in DOMAIN src |-> _deserialize_property(src[key], ps)]
        IN  IF HasError(assets) THEN AnyError(assets)
            ELSE IF \E key \in DOMAIN assets :
                        ~IsAsset(assets[key]) /\ ~IsArchive(assets[key])
            THEN AssertionError
            ELSE AssetArchive(assets)
    ELSE IF "uri" \in DOMAIN prop.m THEN RemoteArchive(prop.m["uri"])
    ELSE AssertionError

\* _deserialize_archive with a fault: the decoded assets are not checked.
_deserialize_archive_Unasserted(prop, ps) ==
    IF "assets" \in DOMAIN prop.m THEN
        LET src == prop.m["assets"].m
            assets == [key \in DOMAIN src |-> _deserialize_property(src[key], ps)]
        IN  IF HasError(assets) THEN AnyError(assets)
            ELSE AssetArchive(assets)
    ELSE IF "path" \in DOMAIN prop.m THEN FileArchive(prop.m["path"])
    ELSE IF "uri" \in DOMAIN prop.m THEN RemoteArchive(prop.m["uri"])
    ELSE AssertionError

_deserialize_archive(prop, ps) ==
    IF "assets" \in DOMAIN prop.m THEN
        LET src == prop.m["assets"].m
            assets == [key \in DOMAIN src |-> _deserialize_property(src[key], ps)]
        IN  IF HasError(assets) THEN AnyError(assets)
            ELSE IF \E key \in DOMAIN assets :
                        ~IsAsset(assets[key]) /\ ~IsArchive(assets[key])
            THEN AssertionError
            ELSE AssetArchive(assets)
    ELSE IF "path" \in DOMAIN prop.m THEN FileArchive(prop.m["path"])
    ELSE IF "uri" \in DOMAIN prop.m THEN RemoteArchive(prop.m["uri"])
    ELSE AssertionError

\* The Secret-signature branch with a fault: the value is never marked.
_deserialize_secret_Unmarked(prop, ps) ==
    IF "value" \notin DOMAIN prop.m THEN AssertionError
    ELSE _deserialize_property(prop.m["value"], ps)

\* The Secret-signature branch of _deserialize_property.
_deserialize_secret(prop, ps) ==
    IF "value" \notin DOMAIN prop.m THEN AssertionError
    ELSE LET value == _deserialize_property(prop.m["value"], ps)
         IN  IF IsError(value) THEN value
             ELSE IF ps THEN Secret(value)
             ELSE value

\* deserialize_properties with a fault: a value that fails to decode is left
\* out of the result.
deserialize_properties_Partial(props, ps) ==
    LET result == [key \in DOMAIN props.m |-> _deserialize_property(props.m[key], ps)]
        good == { key \in DOMAIN result : ~IsError(result[key]) }
    IN  IF ps THEN secrets_preserving_proxy(Dict([key \in good |-> result[key]]))
        ELSE Dict([key \in good |-> result[key]])

deserialize_properties(props, ps) ==
    LET result == [key \in DOMAIN props.m |-> _deserialize_property(props.m[key], ps)]
    IN  IF HasError(result) THEN AnyError(result)
        ELSE IF ps THEN secrets_preserving_proxy(Dict(result))
        ELSE Dict(result)

_deserialize_property(prop, ps) ==
    IF prop.t = "list" THEN
        LET elems == [i \in DOMAIN prop.l |-> _deserialize_property(prop.l[i], ps)]
        IN  IF HasError(elems) THEN AnyError(elems) ELSE List(elems)
    ELSE IF prop.t = "dict" THEN
        IF SPECIAL_SIG_KEY \in DOMAIN prop.m THEN
            LET sig == prop.m[SPECIAL_SIG_KEY]
            IN  IF sig = Str(SPECIAL_ASSET_SIG) THEN _deserialize_asset(prop)
                ELSE IF sig = Str(SPECIAL_ARCHIVE_SIG) THEN _deserialize_archive(prop, ps)
                ELSE IF sig = Str(SPECIAL_SECRET_SIG) THEN _deserialize_secret(prop, ps)
                ELSE AssertionError
        ELSE deserialize_properties(prop, ps)
    ELSE prop

-----------------------------------------------------------------------------
\* deserialize.py: encoding

\* pulumi.runtime.rpc.isLegalProtobufValue: None, bool, int, float, str,
\* list and dict are legal.
isLegalProtobufValue(prop) == prop.t \in {"NoneType", "bool", "int", "str", "list", "dict"}

\* TypeError(f"Serializing values of type {type(prop).__name__} not supported
\* from within a policy pack")
TypeErrorNaming(type_name) == [t |-> "TypeError", name |-> type_name]

RECURSIVE _serialize_property(_)

_serialize_property(prop) ==
    IF prop.t = "_DictProxy" THEN
        LET target == DictProxy_getitem(prop, Str("__target"))
        IN  IF IsError(target) THEN target ELSE _serialize_property(target)
    ELSE IF prop.t = "_ListProxy" THEN
        LET target == ListProxy_getitem(prop, Str("__target"))
        IN  IF IsError(target) THEN target ELSE _serialize_property(target)
    ELSE IF prop.t = "_DictSecretsProxy" THEN
        _serialize_property(DictSecretsProxy_getitem(prop, Str("__target")))
    ELSE IF prop.t = "_ListSecretsProxy" THEN
        _serialize_property(ListSecretsProxy_getitem(prop, Str("__target")))
    ELSE IF prop.t = "list" THEN
        LET elems == [i \in DOMAIN prop.l |-> _serialize_property(prop.l[i])]
        IN  IF HasError(elems) THEN AnyError(elems) ELSE List(elems)
    ELSE IF prop.t = "FileAsset" THEN
        LET p == _serialize_property(prop.path)
        IN  IF IsError(p) THEN p
            ELSE Dict(Map2(SPECIAL_SIG_KEY, Str(SPECIAL_ASSET_SIG), "path", p))
    ELSE IF prop.t = "StringAsset" THEN
        LET p == _serialize_property(prop.text)
        IN  IF IsError(p) THEN p
            ELSE Dict(Map2(SPECIAL_SIG_KEY, Str(SPECIAL_ASSET_SIG), "text", p))
    ELSE IF prop.t = "RemoteAsset" THEN
        LET p == _serialize_property(prop.uri)
        IN  IF IsError(p) THEN p
            ELSE Dict(Map2(SPECIAL_SIG_KEY, Str(SPECIAL_ASSET_SIG), "uri", p))
    ELSE IF prop.t = "AssetArchive" THEN
        LET assets == [key \in DOMAIN prop.assets |-> _serialize_property(prop.assets[key])]
        IN  IF HasError(assets) THEN AnyError(assets)
            ELSE Dict(Map2(SPECIAL_SIG_KEY, Str(SPECIAL_ARCHIVE_SIG), "assets", Dict(assets)))
    ELSE IF prop.t = "FileArchive" THEN
        LET p == _serialize_property(prop.path)
        IN  IF IsError(p) THEN p
            ELSE Dict(Map2(SPECIAL_SIG_KEY, Str(SPECIAL_ARCHIVE_SIG), "path", p))
    ELSE IF prop.t = "RemoteArchive" THEN
        LET p == _serialize_property(prop.uri)
        IN  IF IsError(p) THEN p
            ELSE Dict(Map2(SPECIAL_SIG_KEY, Str(SPECIAL_ARCHIVE_SIG), "uri", p))
    ELSE IF prop.t = "Secret" THEN
        LET p == _serialize_property(prop.value)
        IN  IF IsError(p) THEN p
            ELSE Dict(Map2(SPECIAL_SIG_KEY, Str(SPECIAL_SECRET_SIG), "value", p))
    ELSE IF prop.t = "dict" THEN
        LET result == [key \in DOMAIN prop.m |-> _serialize_property(prop.m[key])]
        IN  IF HasError(result) THEN AnyError(result) ELSE Dict(result)
    ELSE IF ~isLegalProtobufValue(prop) THEN TypeErrorNaming(prop.t)
    ELSE prop

serialize_properties(props) == _serialize_property(props)

-----------------------------------------------------------------------------
\* Wire trees handed to the codec.

SecretW(v) == Dict(Map2(SPECIAL_SIG_KEY, Str(SPECIAL_SECRET_SIG), "value", v))
AssetW(field, s) == Dict(Map2(SPECIAL_SIG_KEY, Str(SPECIAL_ASSET_SIG), field, Str(s)))
ArchiveW(field, s) == Dict(Map2(SPECIAL_SIG_KEY, Str(SPECIAL_ARCHIVE_SIG), field, Str(s)))
ArchiveAssetsW(m) == Dict(Map2(SPECIAL_SIG_KEY, Str(SPECIAL_ARCHIVE_SIG), "assets", Dict(m)))

\* Scalars and the signature-keyed mappings without children: the three
\* assets, an asset that also carries a hash, the two leaf archives, and the
\* malformed ones (no discriminating field, no value, unknown signature).
WireLeaves ==
    { Str("a"), IntV(0),
      AssetW("path", "p"), AssetW("text", "p"), AssetW("uri", "p"),
      Dict(Map3(SPECIAL_SIG_KEY, Str(SPECIAL_ASSET_SIG), "path", Str("p"), "hash", Str("h"))),
      ArchiveW("path", "p"), ArchiveW("uri", "p"),
      Dict(Map1(SPECIAL_SIG_KEY, Str(SPECIAL_ASSET_SIG))),
      Dict(Map1(SPECIAL_SIG_KEY, Str(SPECIAL_ARCHIVE_SIG))),
      Dict(Map1(SPECIAL_SIG_KEY, Str(SPECIAL_SECRET_SIG))),
      Dict(Map1(SPECIAL_SIG_KEY, Str("foobar"))) }

RECURSIVE WireValues(_)

WireValues(d) ==
    IF d = 0 THEN WireLeaves
    ELSE LET sub == WireValues(d - 1)
         IN  WireLeaves
             \cup { List(<<v>>) : v \in sub }
             \cup { Dict(Map1("k", v)) : v \in sub }
             \cup { SecretW(v) : v \in sub }
             \cup { ArchiveAssetsW(Map1("x", v)) : v \in sub }

WireProps == { Dict(Map1("k", v)) : v \in WireValues(MaxDepth) }

-----------------------------------------------------------------------------
\* Specification Spec: one wire property map is decoded in one of the two
\* modes and the result, if any, is encoded again.

\* No operation made yet on a proxy.
NoOp == [name |-> "none"]

NoProxy ==
    /\ args_props = None
    /\ cursor = <<>>
    /\ op = NoOp
    /\ ret = None
    /\ nwrites = 0

\* No call made yet on the analyzer service.
NoStack ==
    /\ request = <<>>
    /\ heap = <<>>
    /\ intermediates = <<>>
    /\ urns_to_resources = EmptyMap
    /\ resources = <<>>
    /\ loop_i = 0

NoAnalyze ==
    /\ rpc = "none"
    /\ policies = <<>>
    /\ diagnostics = <<>>
    /\ response = None

\* The servicer as _PolicyAnalyzerServicer.__init__ leaves it for a pack that
\* gives no enforcement level.
NoServicer ==
    /\ policy_pack_enforcement_level = "advisory"
    /\ policy_pack_config = EmptyMap
    /\ policy_pack_config_enforcement_level = EmptyMap

NoRemediate ==
    /\ remediations = <<>>
    /\ received = <<>>
    /\ provider = None

NoAwait ==
    /\ awaitable_results = <<>>
    /\ awaited = 0

NoConfigure ==
    /\ configure_call = None
    /\ configured = <<>>
    /\ evaluation = None
    /\ evaluations = <<>>

NoCall == NoServicer /\ NoRemediate /\ NoAwait /\ NoConfigure

NoService == NoStack /\ NoAnalyze /\ NoCall

Init ==
    /\ pc = "start"
    /\ wire \in WireProps
    /\ proxy_secrets \in BOOLEAN
    /\ typed = None
    /\ decoded = None
    /\ encoded = None
    /\ NoProxy
    /\ NoService

Deserialize ==
    /\ pc = "start"
    /\ decoded' = deserialize_properties(wire, proxy_secrets)
    /\ pc' = "decoded"
    /\ UNCHANGED serviceVars
    /\ UNCHANGED <<wire, proxy_secrets, typed, encoded, proxyVars>>

Serialize ==
    /\ pc = "decoded"
    /\ ~IsError(decoded)
    /\ encoded' = serialize_properties(decoded)
    /\ pc' = "encoded"
    /\ UNCHANGED serviceVars
    /\ UNCHANGED <<wire, proxy_secrets, typed, decoded, proxyVars>>

Next == Deserialize \/ Serialize

Spec == Init /\ [][Next]_vars

-----------------------------------------------------------------------------
\* Specification SpecDecode: as Spec, over wire property maps that also hold
\* signature-keyed mappings with several discriminating fields, Archives
\* with several assets, and a malformed mapping under a key the decoder does
\* not read.

DecodeLeaves ==
    WireLeaves \cup
    { Dict(Map3(SPECIAL_SIG_KEY, Str(SPECIAL_ARCHIVE_SIG), "path", Str("p"), "uri", Str("u"))),
      Dict(Map3(SPECIAL_SIG_KEY, Str(SPECIAL_ARCHIVE_SIG),
                "assets", Dict(Map1("x", AssetW("text", "p"))), "path", Str("q"))),
      Dict(Map3(SPECIAL_SIG_KEY, Str(SPECIAL_ARCHIVE_SIG),
                "assets", Dict(EmptyMap), "uri", Str("u"))),
      ArchiveAssetsW(Map2("a", AssetW("path", "p"), "b", ArchiveW("uri", "p"))),
      ArchiveAssetsW(Map2("a", AssetW("path", "p"), "b", Str("a"))),
      Dict(Map3(SPECIAL_SIG_KEY, Str(SPECIAL_ASSET_SIG), "path", Str("p"),
                "hash", Dict(Map1(SPECIAL_SIG_KEY, Str("foobar"))))) }

RECURSIVE DecodeValues(_)

DecodeValues(d) ==
    IF d = 0 THEN DecodeLeaves
    ELSE LET sub == DecodeValues(d - 1)
         IN  DecodeLeaves
             \cup { List(<<v>>) : v \in sub }
             \cup { Dict(Map1("k", v)) : v \in sub }
             \cup { SecretW(v) : v \in sub }
             \cup { ArchiveAssetsW(Map1("x", v)) : v \in sub }

DecodeProps == { Dict(Map1("k", v)) : v \in DecodeValues(MaxDepth) }

InitDecode ==
    /\ pc = "start"
    /\ wire \in DecodeProps
    /\ proxy_secrets \in BOOLEAN
    /\ typed = None
    /\ decoded = None
    /\ encoded = None
    /\ NoProxy
    /\ NoService

SpecDecode == InitDecode /\ [][Next]_vars

-----------------------------------------------------------------------------
\* Specification SpecTyped: a typed property map (scalars, lists, mappings,
\* Assets and Archives, no Secret) is encoded and the wire tree decoded again
\* in the default (fully-reveal) mode. No mapping of these trees carries the
\* reserved signature key: the decoder never produces such a mapping below
\* the top level.

TypedLeaves ==
    { Str("a"), IntV(0), Bool(TRUE), None,
      FileAsset(Str("p")), StringAsset(Str("p")), RemoteAsset(Str("p")),
      FileArchive(Str("p")), RemoteArchive(Str("p")), AssetArchive(EmptyMap) }

RECURSIVE TypedValues(_)

TypedValues(d) ==
    IF d = 0 THEN TypedLeaves
    ELSE LET sub == TypedValues(d - 1)
         IN  TypedLeaves
             \cup { List(<<v>>) : v \in sub }
             \cup { Dict(Map1("k", v)) : v \in sub }
             \cup { AssetArchive(Map1("x", v)) : v \in {u \in sub : IsAsset(u) \/ IsArchive(u)} }

TypedProps == { Dict(Map1("k", v)) : v \in TypedValues(MaxDepth) }

InitTyped ==
    /\ pc = "start"
    /\ typed \in TypedProps
    /\ wire = None
    /\ proxy_secrets = FALSE
    /\ decoded = None
    /\ encoded = None
    /\ NoProxy
    /\ NoService

SerializeTyped ==
    /\ pc = "start"
    /\ encoded' = serialize_properties(typed)
    /\ pc' = "encoded"
    /\ UNCHANGED serviceVars
    /\ UNCHANGED <<wire, proxy_secrets, typed, decoded, proxyVars>>

DeserializeEncoded ==
    /\ pc = "encoded"
    /\ ~IsError(encoded)
    /\ decoded' = deserialize_properties(encoded, proxy_secrets)
    /\ pc' = "decoded"
    /\ UNCHANGED serviceVars
    /\ UNCHANGED <<wire, proxy_secrets, typed, encoded, proxyVars>>

NextTyped == SerializeTyped \/ DeserializeEncoded

SpecTyped == InitTyped /\ [][NextTyped]_vars

-----------------------------------------------------------------------------
\* Specification SpecEncode: a tree of every kind of value the encoder
\* tells apart, among them values it does not support (a tuple, a set), is
\* encoded, and the wire tree decoded if there is one.

PySet == [t |-> "set"]

EncodeLeaves == { Str("a"), IntV(0), Tuple(IntV(0), IntV(1)), PySet }

RECURSIVE EncodeValues(_)

EncodeValues(d) ==
    IF d = 0 THEN EncodeLeaves
    ELSE LET sub == EncodeValues(d - 1)
         IN  EncodeLeaves
             \cup { List(<<Str("a"), v>>) : v \in sub }
             \cup { Dict(Map1("k", v)) : v \in sub }
             \cup { Secret(v) : v \in sub }
             \cup { FileAsset(v) : v \in sub }
             \cup { AssetArchive(Map1("x", v)) : v \in sub }
             \cup { secrets_preserving_proxy(Dict(Map1("k", v))) : v \in sub }
             \cup { secrets_preserving_proxy(List(<<v>>)) : v \in sub }
             \cup { unknown_checking_proxy(Dict(Map1("k", v))) : v \in sub }
             \cup { unknown_checking_proxy(List(<<v>>)) : v \in sub }

EncodeProps == { Dict(Map1("k", v)) : v \in EncodeValues(MaxDepth) }

InitEncode ==
    /\ pc = "start"
    /\ typed \in EncodeProps
    /\ wire = None
    /\ proxy_secrets = FALSE
    /\ decoded = None
    /\ encoded = None
    /\ NoProxy
    /\ NoService

SpecEncode == InitEncode /\ [][NextTyped]_vars

-----------------------------------------------------------------------------
\* Specification SpecUnknown: a decoded property map holding unknown
\* sentinels is wrapped by unknown_checking_proxy and policy code reads it:
\* it indexes the proxy in hand, steps into a container it has read, takes
\* lengths and iterates.

Sentinels ==
    { UNKNOWN_BOOLEAN_VALUE, UNKNOWN_NUMBER_VALUE, UNKNOWN_STRING_VALUE,
      UNKNOWN_ARRAY_VALUE, UNKNOWN_ASSET_VALUE, UNKNOWN_ARCHIVE_VALUE,
      UNKNOWN_OBJECT_VALUE }

UnknownLeaves == { Str("v"), IntV(0) } \cup { Str(u) : u \in Sentinels }

\* The elements of the two- and three-element containers.
PairLeaves == { Str("v"), Str(UNKNOWN_BOOLEAN_VALUE), Str(UNKNOWN_OBJECT_VALUE) }

RECURSIVE UnknownValues(_)

UnknownValues(d) ==
    IF d = 0 THEN UnknownLeaves
    ELSE LET sub == UnknownValues(d - 1)
         IN  UnknownLeaves
             \cup { List(<<v>>) : v \in sub }
             \cup { Dict(Map1("a", v)) : v \in sub }
             \cup { List(<<v, w>>) : v \in PairLeaves, w \in PairLeaves }
             \cup { Dict(Map2("a", v, "b", w)) : v \in PairLeaves, w \in PairLeaves }
             \cup { List(<<Str("v"), v, w>>) : v \in PairLeaves, w \in PairLeaves }

UnknownProps == { Dict(Map2("a", Str("v"), "k", v)) : v \in UnknownValues(UnknownDepth) }

IsUnknownProxy(v) == v.t \in {"_DictProxy", "_ListProxy"}

\* The keys and indices policy code indexes a proxy with: those present, and
\* for a list the negative indices too.
ProxyKeys(self) ==
    IF self.t = "_DictProxy" THEN { Str(k) : k \in DOMAIN self.map }
    ELSE { IntV(i) : i \in (-Len(self.elems)) .. (Len(self.elems) - 1) }

RECURSIVE ProxyAt(_, _)
\* The proxy reached from proxy self by reading the keys of path in turn.
ProxyAt(self, path) ==
    IF path = <<>> THEN self
    ELSE ProxyAt(IF self.t = "_DictProxy" THEN DictProxy_getitem(self, Head(path))
                 ELSE ListProxy_getitem(self, Head(path)),
                 Tail(path))

InHand == ProxyAt(args_props, cursor)

Op(name, key) == [name |-> name, key |-> key]

InitUnknown ==
    /\ pc = "start"
    /\ decoded \in UnknownProps
    /\ wire = None
    /\ proxy_secrets = FALSE
    /\ typed = None
    /\ encoded = None
    /\ NoProxy
    /\ NoService

\* props = unknown_checking_proxy(deserialized)
Wrap ==
    /\ pc = "start"
    /\ args_props' = unknown_checking_proxy(decoded)
    /\ pc' = "proxied"
    /\ UNCHANGED serviceVars
    /\ UNCHANGED <<codecVars, cursor, op, ret, nwrites>>

\* proxy[key]
GetItem ==
    /\ pc = "proxied"
    /\ \E key \in ProxyKeys(InHand) :
          /\ ret' = IF InHand.t = "_DictProxy" THEN DictProxy_getitem(InHand, key)
                    ELSE ListProxy_getitem(InHand, key)
          /\ op' = Op("getitem", key)
    /\ UNCHANGED serviceVars
    /\ UNCHANGED <<pc, codecVars, args_props, cursor, nwrites>>

\* Policy code goes on with the container it has just read.
Enter ==
    /\ pc = "proxied"
    /\ op.name = "getitem"
    /\ IsUnknownProxy(ret)
    /\ cursor' = Append(cursor, op.key)
    /\ op' = NoOp
    /\ ret' = None
    /\ UNCHANGED serviceVars
    /\ UNCHANGED <<pc, codecVars, args_props, nwrites>>

\* len(proxy)
Length ==
    /\ pc = "proxied"
    /\ ret' = IntV(IF InHand.t = "_DictProxy" THEN DictProxy_len(InHand)
                   ELSE ListProxy_len(InHand))
    /\ op' = Op("len", None)
    /\ UNCHANGED serviceVars
    /\ UNCHANGED <<pc, codecVars, args_props, cursor, nwrites>>

\* key in proxy of a mapping proxy, for the keys it has and one it has not.
Contains ==
    /\ pc = "proxied"
    /\ InHand.t = "_DictProxy"
    /\ \E key \in ProxyKeys(InHand) \cup {Str("zz")} :
          /\ ret' = DictProxy_contains(InHand, key)
          /\ op' = Op("contains", key)
    /\ UNCHANGED serviceVars
    /\ UNCHANGED <<pc, codecVars, args_props, cursor, nwrites>>

\* list(proxy) of a mapping proxy: its keys
IterKeys ==
    /\ pc = "proxied"
    /\ InHand.t = "_DictProxy"
    /\ ret' = List([i \in DOMAIN DictProxy_iter(InHand) |-> Str(DictProxy_iter(InHand)[i])])
    /\ op' = Op("keys", None)
    /\ UNCHANGED serviceVars
    /\ UNCHANGED <<pc, codecVars, args_props, cursor, nwrites>>

\* for e in proxy, for v in proxy.values(), for k, v in proxy.items()
Iterate ==
    /\ pc = "proxied"
    /\ \/ /\ InHand.t = "_ListProxy"
          /\ ret' = ListProxy_iterate(InHand, 0, <<>>)
          /\ op' = Op("elements", None)
       \/ /\ InHand.t = "_DictProxy"
          /\ \E items \in BOOLEAN :
                /\ ret' = DictProxy_iterate(InHand, DictProxy_iter(InHand), items, <<>>)
                /\ op' = Op(IF items THEN "items" ELSE "values", None)
    /\ UNCHANGED serviceVars
    /\ UNCHANGED <<pc, codecVars, args_props, cursor, nwrites>>

\* serialize_properties(proxy), or of a plain mapping that holds the proxy
SerializeProxy ==
    /\ pc = "proxied"
    /\ \E nested \in BOOLEAN :
          /\ encoded' = serialize_properties(IF nested THEN Dict(Map1("k", InHand))
                                             ELSE InHand)
          /\ op' = Op("serialize", Bool(nested))
    /\ ret' = None
    /\ UNCHANGED serviceVars
    /\ UNCHANGED <<pc, wire, proxy_secrets, typed, decoded, args_props, cursor, nwrites>>

NextUnknown ==
    Wrap \/ GetItem \/ Enter \/ Length \/ Contains \/ IterKeys \/ Iterate \/ SerializeProxy

SpecUnknown == InitUnknown /\ [][NextUnknown]_vars

-----------------------------------------------------------------------------
\* Specification SpecSecrets: a wire property map holding secrets is decoded
\* in proxy-preserving mode and policy code reads and writes the result
\* through the secret-preserving proxy: it indexes the proxy in hand, steps
\* into a container it has read, assigns plain values, and starts again from
\* the root proxy.

SecretLeaves == { Str("a"), IntV(0) }

RECURSIVE SecretValues(_)

SecretValues(d) ==
    IF d = 0 THEN SecretLeaves
    ELSE LET sub == SecretValues(d - 1)
         IN  SecretLeaves
             \cup { List(<<v>>) : v \in sub }
             \cup { List(<<v, IntV(0)>>) : v \in sub }
             \cup { Dict(Map1("a", v)) : v \in sub }
             \cup { SecretW(v) : v \in sub }

SecretProps == { Dict(Map1("k", v)) : v \in SecretValues(SecretDepth) }

\* The plain values policy code assigns.
Written == { Str("y"), List(<<Str("y")>>) }

IsSecretsProxy(v) == v.t \in {"_DictSecretsProxy", "_ListSecretsProxy"}

SecretsProxy_getitem(self, key) ==
    IF self.t = "_DictSecretsProxy" THEN DictSecretsProxy_getitem(self, key)
    ELSE ListSecretsProxy_getitem(self, key)

SecretsProxy_setitem(self, key, value) ==
    IF self.t = "_DictSecretsProxy" THEN DictSecretsProxy_setitem(self, key, value)
    ELSE ListSecretsProxy_setitem(self, key, value)

\* The raw value stored under key in the list or dict behind a proxy, or
\* Absent when the dict has no such key.
Absent == [t |-> "absent"]
Slot(self, key) ==
    IF self.t = "_DictSecretsProxy"
    THEN IF key.s \in DOMAIN self.target.m THEN self.target.m[key.s] ELSE Absent
    ELSE self.target.l[ListPos(key, Len(self.target.l))]

RECURSIVE SecretsProxyAt(_, _)
\* The proxy reached from proxy self by reading the keys of path in turn.
SecretsProxyAt(self, path) ==
    IF path = <<>> THEN self
    ELSE SecretsProxyAt(SecretsProxy_getitem(self, Head(path)), Tail(path))

\* The proxies read from a proxy share its backing lists and dicts: the
\* proxy self after the container behind the proxy read at key has been
\* mutated into the one behind proxy child.
WithChild(self, key, child) ==
    LET old == Slot(self, key)
        inner == IF old.t = "Secret" THEN old.value ELSE old
        mutated == IF inner.t \in {"list", "dict"} THEN child.target ELSE child
        stored == IF old.t = "Secret" THEN Secret(mutated) ELSE mutated
    IN  IF self.t = "_DictSecretsProxy"
        THEN DictSecretsProxy(Dict([self.target.m EXCEPT ![key.s] = stored]))
        ELSE ListSecretsProxy(List([self.target.l EXCEPT
                                       ![ListPos(key, Len(self.target.l))] = stored]))

RECURSIVE Mutated(_, _, _)
\* The root proxy self after the container behind the proxy at path has been
\* mutated into the one behind proxy new.
Mutated(self, path, new) ==
    IF path = <<>> THEN new
    ELSE WithChild(self, Head(path),
                   Mutated(SecretsProxy_getitem(self, Head(path)), Tail(path), new))

SecretInHand == SecretsProxyAt(args_props, cursor)

\* The keys and indices policy code uses on a proxy: those present, and for
\* a mapping a key not yet present.
SecretsProxyKeys(self) ==
    IF self.t = "_DictSecretsProxy" THEN { Str(k) : k \in DOMAIN self.target.m \cup {"n"} }
    ELSE { IntV(i) : i \in 0 .. (Len(self.target.l) - 1) }

\* An operation, with the value given and the raw value the slot held before.
SOp(name, key, value, before) ==
    [name |-> name, key |-> key, value |-> value, before |-> before]

InitSecrets ==
    /\ pc = "start"
    /\ wire \in SecretProps
    /\ proxy_secrets = TRUE
    /\ typed = None
    /\ decoded = None
    /\ encoded = None
    /\ NoProxy
    /\ NoService

\* deserialized = deserialize_properties(..., True)
DeserializeProxied ==
    /\ pc = "start"
    /\ args_props' = deserialize_properties(wire, proxy_secrets)
    /\ pc' = "proxied"
    /\ UNCHANGED serviceVars
    /\ UNCHANGED <<codecVars, cursor, op, ret, nwrites>>

\* proxy[key]
SecretGetItem ==
    /\ pc = "proxied"
    /\ \E key \in SecretsProxyKeys(SecretInHand) :
          /\ ret' = SecretsProxy_getitem(SecretInHand, key)
          /\ op' = SOp("getitem", key, None, Slot(SecretInHand, key))
    /\ UNCHANGED serviceVars
    /\ UNCHANGED <<pc, codecVars, args_props, cursor, nwrites>>

\* Policy code goes on with the container it has just read.
SecretEnter ==
    /\ pc = "proxied"
    /\ op.name = "getitem"
    /\ IsSecretsProxy(ret)
    /\ cursor' = Append(cursor, op.key)
    /\ op' = NoOp
    /\ ret' = None
    /\ UNCHANGED serviceVars
    /\ UNCHANGED <<pc, codecVars, args_props, nwrites>>

\* Policy code goes back to args.props.
SecretLeave ==
    /\ pc = "proxied"
    /\ cursor # <<>>
    /\ cursor' = <<>>
    /\ op' = NoOp
    /\ ret' = None
    /\ UNCHANGED serviceVars
    /\ UNCHANGED <<pc, codecVars, args_props, nwrites>>

\* proxy[key] = value
SecretSetItem ==
    /\ pc = "proxied"
    /\ nwrites < MaxWrites
    /\ \E key \in SecretsProxyKeys(SecretInHand), value \in Written :
          /\ args_props' = Mutated(args_props, cursor,
                                   SecretsProxy_setitem(SecretInHand, key, value))
          /\ op' = SOp("setitem", key, value, Slot(SecretInHand, key))
    /\ ret' = None
    /\ nwrites' = nwrites + 1
    /\ UNCHANGED serviceVars
    /\ UNCHANGED <<pc, codecVars, cursor>>

NextSecrets ==
    DeserializeProxied \/ SecretGetItem \/ SecretEnter \/ SecretLeave \/ SecretSetItem

SpecSecrets == InitSecrets /\ [][NextSecrets]_vars

-----------------------------------------------------------------------------
\* policy.py: AnalyzeStack, assembly of the stack graph.

\* A reference to the PolicyResource object created at position at of heap.
Ref(at) == [t |-> "ref", at |-> at]

\* An entry of request.resources. parent is "" when unset.
AnalyzerResource(urn, name, parent, dependencies, propertyDependencies) ==
    [urn |-> urn, name |-> name, parent |-> parent, dependencies |-> dependencies,
     propertyDependencies |-> propertyDependencies]

PolicyResource(urn, name, parent, dependencies, property_dependencies) ==
    [t |-> "PolicyResource", urn |-> urn, name |-> name, parent |-> parent,
     dependencies |-> dependencies, property_dependencies |-> property_dependencies]

IntermediateStackResource(resource, parent, dependencies, property_dependencies) ==
    [resource |-> resource, parent |-> parent, dependencies |-> dependencies,
     property_dependencies |-> property_dependencies]

\* urns_to_resources[urn] = resource, with a fault: an URN already indexed
\* keeps its resource.
SetUrn_FirstWins(index, urn, resource) ==
    [u \in DOMAIN index \cup {urn} |-> IF u \in DOMAIN index THEN index[u] ELSE resource]

\* urns_to_resources[urn] = resource
SetUrn(index, urn, resource) ==
    [u \in DOMAIN index \cup {urn} |-> IF u = urn THEN resource ELSE index[u]]

RECURSIVE ResolveUrns_Reversed(_, _)
\* ResolveUrns with a fault: the resources are prepended, not appended.
ResolveUrns_Reversed(urns, index) ==
    IF urns = <<>> THEN <<>>
    ELSE ResolveUrns_Reversed(Tail(urns), index)
            \o (IF Head(urns) \in DOMAIN index THEN <<index[Head(urns)]>> ELSE <<>>)

RECURSIVE ResolveUrns(_, _)
\* for d in urns: if d in urns_to_resources: deps.append(urns_to_resources[d])
ResolveUrns(urns, index) ==
    IF urns = <<>> THEN <<>>
    ELSE (IF Head(urns) \in DOMAIN index THEN <<index[Head(urns)]>> ELSE <<>>)
            \o ResolveUrns(Tail(urns), index)

\* for i in intermediates: resources.append(i.resource), with a fault: the
\* first intermediate is left out.
CollectResources_DropFirst(inter) ==
    [k \in 1 .. (Len(inter) - 1) |-> inter[k + 1].resource]

\* for i in intermediates: resources.append(i.resource)
CollectResources(inter) ==
    [k \in 1 .. Len(inter) |-> inter[k].resource]

-----------------------------------------------------------------------------
\* Specification SpecStack: AnalyzeStack assembles the stack graph of one
\* request for one stack policy, one loop iteration at a step.

\* The entries a request is made of: roots, children, dependencies on
\* resources before and after, on itself, on URNs not in the request, and
\* entries that share an URN.
Entries ==
    { AnalyzerResource("urn:a", "A", "", <<>>, EmptyMap),
      AnalyzerResource("urn:b", "B", "urn:a", <<>>, EmptyMap),
      AnalyzerResource("urn:c", "C", "", <<"urn:a", "urn:x">>, EmptyMap),
      AnalyzerResource("urn:b", "D", "urn:x", <<"urn:b", "urn:a">>,
                       Map1("p", <<"urn:a", "urn:x", "urn:b">>)),
      AnalyzerResource("urn:a", "E", "urn:b", <<"urn:c", "urn:a">>,
                       Map2("p", <<>>, "q", <<"urn:b">>)),
      AnalyzerResource("urn:c", "F", "urn:c", <<"urn:a", "urn:a">>,
                       Map1("p", <<"urn:x">>)) }

Requests == UNION { [1 .. len -> Entries] : len \in 1 .. MaxResources }

InitStack ==
    /\ pc = "intermediates"
    /\ request \in Requests
    /\ heap = <<>>
    /\ intermediates = <<>>
    /\ urns_to_resources = EmptyMap
    /\ resources = <<>>
    /\ loop_i = 0
    /\ NoAnalyze
    /\ NoCall
    /\ wire = None
    /\ proxy_secrets = FALSE
    /\ typed = None
    /\ decoded = None
    /\ encoded = None
    /\ NoProxy

\* The position after an iteration of a loop over len elements: the next
\* iteration, or the statement after the loop.
AfterIteration(here, len, after) ==
    /\ pc' = IF loop_i + 1 = len THEN after ELSE here
    /\ loop_i' = IF loop_i + 1 = len THEN 0 ELSE loop_i + 1

\* for r in request.resources: ... intermediates.append(...)
Intermediate ==
    /\ pc = "intermediates"
    /\ LET r == request[loop_i + 1]
       IN  /\ heap' = Append(heap, PolicyResource(r.urn, r.name, None, <<>>, EmptyMap))
           /\ intermediates' = Append(intermediates,
                 IntermediateStackResource(Ref(Len(heap) + 1), r.parent,
                                           r.dependencies, r.propertyDependencies))
    /\ AfterIteration("intermediates", Len(request), "index")
    /\ UNCHANGED <<request, urns_to_resources, resources, codecVars, proxyVars, analyzeVars, callVars>>

\* for i in intermediates: urns_to_resources[i.resource.urn] = i.resource
IndexUrn ==
    /\ pc = "index"
    /\ LET i == intermediates[loop_i + 1]
       IN  urns_to_resources' = SetUrn(urns_to_resources, heap[i.resource.at].urn, i.resource)
    /\ AfterIteration("index", Len(intermediates), "resolve")
    /\ UNCHANGED <<request, heap, intermediates, resources, codecVars, proxyVars, analyzeVars, callVars>>

\* for i in intermediates: set the parent, the dependencies and the
\* property_dependencies of i.resource
Resolve ==
    /\ pc = "resolve"
    /\ LET i == intermediates[loop_i + 1]
           old == heap[i.resource.at]
       IN  heap' = [heap EXCEPT ![i.resource.at] =
              PolicyResource(old.urn, old.name,
                  IF i.parent \in DOMAIN urns_to_resources
                  THEN urns_to_resources[i.parent] ELSE old.parent,
                  old.dependencies \o ResolveUrns(i.dependencies, urns_to_resources),
                  [k \in DOMAIN old.property_dependencies \cup DOMAIN i.property_dependencies |->
                      IF k \in DOMAIN i.property_dependencies
                      THEN ResolveUrns(i.property_dependencies[k], urns_to_resources)
                      ELSE old.property_dependencies[k]])]
    /\ AfterIteration("resolve", Len(intermediates), "collect")
    /\ UNCHANGED <<request, intermediates, urns_to_resources, resources, codecVars, proxyVars, analyzeVars, callVars>>

\* resources = [i.resource for each i]; args = StackValidationArgs(resources, config)
Collect ==
    /\ pc = "collect"
    /\ resources' = CollectResources(intermediates)
    /\ pc' = "assembled"
    /\ UNCHANGED <<request, heap, intermediates, urns_to_resources, loop_i,
                   codecVars, proxyVars, analyzeVars, callVars>>

NextStack == Intermediate \/ IndexUrn \/ Resolve \/ Collect

SpecStack == InitStack /\ [][NextStack]_vars

-----------------------------------------------------------------------------
\* policy.py: Analyze and AnalyzeStack, the loop over the policies.

RuntimeError == [t |-> "RuntimeError"]

\* A validation callback: a function, or with is_async a coroutine function.
\* acts is what its body does, in order: "report" calls report_violation,
\* "unknown" reads a property whose value is unknown.
Validation(is_async, acts) == [is_async |-> is_async, acts |-> acts]

\* A policy of the pack. supplied tells how its validation is given:
\* "validate" by the validate argument (a callback or a list of them),
\* "subclass" by a subclass that overrides validate (validations holds the
\* one method), "remediate" when only a remediation is given.
Policy(class, name, enforcement_level, supplied, validations) ==
    [class |-> class, name |-> name, enforcement_level |-> enforcement_level,
     supplied |-> supplied, validations |-> validations]

AnalyzeDiagnostic(policyName, message, urn, enforcementLevel) ==
    [policyName |-> policyName, message |-> message, urn |-> urn,
     enforcementLevel |-> enforcementLevel]

AnalyzeResponse(diags) == [t |-> "AnalyzeResponse", diagnostics |-> diags]

\* The awaitable a validate method returns: the coroutines of bodies awaited
\* in order, by await_all (wrap) or as the coroutine of the method itself.
Coroutine(wrap, bodies) == [t |-> "coroutine", wrap |-> wrap, bodies |-> bodies]

\* What a call leaves: the list diagnostics after it, the exception it
\* raised or None, the value it returned or None.
Outcome(diags, raised, result) == [diagnostics |-> diags, raised |-> raised, result |-> result]

\* The closure made by _create_report_violation with a fault: the list holds
\* the latest diagnostic only.
report_violation_Latest(diags, policy_name, enforcement_level, message) ==
    <<AnalyzeDiagnostic(policy_name, message, "", enforcement_level)>>

\* The closure made by _create_report_violation, called without urn.
report_violation(diags, policy_name, enforcement_level, message) ==
    Append(diags, AnalyzeDiagnostic(policy_name, message, "", enforcement_level))

RECURSIVE RunBody(_, _, _, _)
\* The body of a validation callback run to its end or to the exception
\* raised by the unknown-checking proxy.
RunBody(acts, diags, policy_name, enforcement_level) ==
    IF acts = <<>> THEN Outcome(diags, None, None)
    ELSE IF Head(acts) = "report"
    THEN RunBody(Tail(acts),
                 report_violation(diags, policy_name, enforcement_level, "violation"),
                 policy_name, enforcement_level)
    ELSE Outcome(diags, UnknownValueError(UNKNOWN_STRING_VALUE, <<"prefix">>), None)

RECURSIVE CallValidations(_, _, _, _, _)
\* ResourceValidationPolicy.validate: for validation in validations, then
\* return await_all() if a callback returned an awaitable.
CallValidations(validations, awaitables, diags, policy_name, enforcement_level) ==
    IF validations = <<>>
    THEN Outcome(diags, None,
                 IF awaitables # <<>> THEN Coroutine(TRUE, awaitables) ELSE None)
    ELSE LET validation == Head(validations)
         IN  IF validation.is_async
             THEN CallValidations(Tail(validations), Append(awaitables, validation.acts),
                                  diags, policy_name, enforcement_level)
             ELSE LET o == RunBody(validation.acts, diags, policy_name, enforcement_level)
                  IN  IF o.raised # None THEN o
                      ELSE CallValidations(Tail(validations), awaitables,
                                           o.diagnostics, policy_name, enforcement_level)

\* A validate method written by the user, or StackValidationPolicy.validate:
\* the result of the one callback is returned as it is.
CallValidation(validation, diags, policy_name, enforcement_level) ==
    IF validation.is_async THEN Outcome(diags, None, Coroutine(FALSE, <<validation.acts>>))
    ELSE RunBody(validation.acts, diags, policy_name, enforcement_level)

ResourceValidationPolicy_validate(policy, diags, enforcement_level) ==
    IF policy.supplied = "validate"
    THEN CallValidations(policy.validations, <<>>, diags, policy.name, enforcement_level)
    ELSE CallValidation(policy.validations[1], diags, policy.name, enforcement_level)

StackValidationPolicy_validate(policy, diags, enforcement_level) ==
    CallValidation(policy.validations[1], diags, policy.name, enforcement_level)

has_validation(policy) == policy.supplied \in {"validate", "subclass"}

RECURSIVE run_until_complete(_, _, _, _, _)
\* loop.run_until_complete(task): the coroutines are awaited in order;
\* await_all raises RuntimeError from any exception of a coroutine.
run_until_complete(bodies, wrap, diags, policy_name, enforcement_level) ==
    IF bodies = <<>> THEN Outcome(diags, None, None)
    ELSE LET o == RunBody(Head(bodies), diags, policy_name, enforcement_level)
         IN  IF o.raised # None
             THEN Outcome(o.diagnostics, IF wrap THEN RuntimeError ELSE o.raised, None)
             ELSE run_until_complete(Tail(bodies), wrap, o.diagnostics,
                                     policy_name, enforcement_level)

\* EnforcementLevel values are the strings "advisory", "mandatory",
\* "remediate" and "disabled"; a policy that gives no level has NoLevel.
NoLevel == "none"

\* _get_enforcement_level with a fault: the policy's own level goes before
\* the level configured for its name.
_get_enforcement_level_OwnFirst(policy) ==
    IF policy.enforcement_level # NoLevel THEN policy.enforcement_level
    ELSE IF policy.name \in DOMAIN policy_pack_config_enforcement_level
    THEN policy_pack_config_enforcement_level[policy.name]
    ELSE policy_pack_enforcement_level

_get_enforcement_level(policy) ==
    IF policy.name \in DOMAIN policy_pack_config_enforcement_level
    THEN policy_pack_config_enforcement_level[policy.name]
    ELSE IF policy.enforcement_level # NoLevel THEN policy.enforcement_level
    ELSE policy_pack_enforcement_level

\* A config is a dict of the model; an empty one is given as None.
_get_policy_config(name) ==
    IF name \in DOMAIN policy_pack_config /\ policy_pack_config[name] # Dict(EmptyMap)
    THEN policy_pack_config[name]
    ELSE None

\* The policy is not passed over by the continue at the head of the loop.
Evaluated(call, policy) ==
    /\ _get_enforcement_level(policy) # "disabled"
    /\ IF call = "Analyze"
       THEN policy.class = "ResourceValidationPolicy" /\ has_validation(policy)
       ELSE policy.class = "StackValidationPolicy"

\* if enforcement_level == EnforcementLevel.REMEDIATE with a fault: the
\* level is kept.
Downgraded_Kept(enforcement_level) == enforcement_level

\* if enforcement_level == EnforcementLevel.REMEDIATE: the level reported is
\* MANDATORY.
Downgraded(enforcement_level) ==
    IF enforcement_level = "remediate" THEN "mandatory" ELSE enforcement_level

\* The body of the try statement: policy.validate(args, report_violation)
\* and, if the result is awaitable, its run on a new event loop.
TryValidateAt(call, policy, diags, enforcement_level) ==
    LET o == IF call = "Analyze"
             THEN ResourceValidationPolicy_validate(policy, diags, enforcement_level)
             ELSE StackValidationPolicy_validate(policy, diags, enforcement_level)
    IN  IF o.raised = None /\ o.result # None
        THEN run_until_complete(o.result.bodies, o.result.wrap, o.diagnostics,
                                policy.name, enforcement_level)
        ELSE o

\* The same with the level of the policy read at the head of the iteration.
TryValidate(call, policy, diags) ==
    TryValidateAt(call, policy, diags, Downgraded(_get_enforcement_level(policy)))

-----------------------------------------------------------------------------
\* Specification SpecAnalyze: one Analyze or AnalyzeStack call on a policy
\* pack, one policy at a step.

Bodies == { <<"report">>, <<"unknown">>, <<"report", "unknown">> }

Validations ==
    { <<Validation(a, b)>> : a \in BOOLEAN, b \in Bodies }
    \cup { <<Validation(FALSE, <<"report">>), Validation(TRUE, <<"report", "unknown">>)>>,
           <<Validation(FALSE, <<"unknown">>), Validation(FALSE, <<"report">>)>>,
           <<Validation(TRUE, <<"report">>), Validation(TRUE, <<"report">>)>> }

\* The policies a pack is made of, yet without name.
Policies ==
    { Policy("ResourceValidationPolicy", "", "mandatory", "validate", v) : v \in Validations }
    \cup { Policy("ResourceValidationPolicy", "", "remediate", "subclass", v) :
               v \in { <<Validation(a, <<"report", "unknown">>)>> : a \in BOOLEAN } }
    \cup { Policy("ResourceValidationPolicy", "", "disabled", "validate",
                  <<Validation(FALSE, <<"unknown">>)>>),
           Policy("ResourceValidationPolicy", "", "remediate", "remediate", <<>>) }
    \cup { Policy("StackValidationPolicy", "", l, "validate", <<Validation(a, <<"report", "unknown">>)>>) :
               l \in {"advisory", "remediate"}, a \in BOOLEAN }
    \cup { Policy("StackValidationPolicy", "", "mandatory", "subclass",
                  <<Validation(TRUE, <<"report">>)>>) }

\* Policy names are unique in a pack: a policy is named after its position.
Named(policy, i) == [policy EXCEPT !.name = ToString(i)]

Packs ==
    UNION { { [i \in 1 .. len |-> Named(f[i], i)] : f \in [1 .. len -> Policies] } :
            len \in 1 .. MaxPolicies }

InitAnalyze ==
    /\ pc = "policies"
    /\ rpc \in {"Analyze", "AnalyzeStack"}
    /\ policies \in Packs
    /\ diagnostics = <<>>
    /\ response = None
    /\ NoStack
    /\ NoCall
    /\ wire = None
    /\ proxy_secrets = FALSE
    /\ typed = None
    /\ decoded = None
    /\ encoded = None
    /\ NoProxy

\* One iteration of for policy in self.__policies.
AnalyzePolicy ==
    /\ pc = "policies"
    /\ loop_i < Len(policies)
    /\ LET policy == policies[loop_i + 1]
           o == TryValidate(rpc, policy, diagnostics)
       IN  IF ~Evaluated(rpc, policy)
           THEN UNCHANGED <<pc, diagnostics, response>>
           ELSE IF o.raised = None
           THEN diagnostics' = o.diagnostics /\ UNCHANGED <<pc, response>>
           ELSE IF o.raised.t = "UnknownValueError"
           THEN /\ diagnostics' = Append(o.diagnostics,
                      AnalyzeDiagnostic(policy.name, "can't run policy", "", "advisory"))
                /\ UNCHANGED <<pc, response>>
           ELSE /\ diagnostics' = o.diagnostics
                /\ response' = o.raised
                /\ pc' = "raised"
    /\ loop_i' = loop_i + 1
    /\ UNCHANGED <<rpc, policies, request, heap, intermediates, urns_to_resources,
                   resources, codecVars, proxyVars, callVars>>

\* return proto.AnalyzeResponse(diagnostics=diagnostics)
Respond ==
    /\ pc = "policies"
    /\ loop_i = Len(policies)
    /\ response' = AnalyzeResponse(diagnostics)
    /\ pc' = "responded"
    /\ UNCHANGED <<rpc, policies, diagnostics, stackVars, codecVars, proxyVars, callVars>>

NextAnalyze == AnalyzePolicy \/ Respond

SpecAnalyze == InitAnalyze /\ [][NextAnalyze]_vars

-----------------------------------------------------------------------------
\* policy.py: Remediate.

\* A remediation callback, a function or with is_async a coroutine function.
\* Its body reads the keys of path one after the other, starting from
\* args.props (reads = "props") or from args.provider.props (reads =
\* "provider"), or reads nothing; then it returns None ("None"), an empty
\* dict ("empty"), args.props ("props") or a dict of its own ("fresh").
ResourceRemediation(is_async, reads, path, returns) ==
    [is_async |-> is_async, reads |-> reads, path |-> path, returns |-> returns]

\* A ResourceValidationPolicy given by remediate=, or by validate= when
\* remediate is None.
RemediationPolicy(name, enforcement_level, remediate) ==
    [class |-> "ResourceValidationPolicy", name |-> name,
     enforcement_level |-> enforcement_level,
     supplied |-> IF remediate = None THEN "validate" ELSE "remediate",
     validations |-> <<>>, remediate |-> remediate]

has_remediation(policy) == policy.remediate # None

RemediateRequest(properties, provider_properties) ==
    [properties |-> properties, provider |-> provider_properties]

\* proto.Remediation; diagnostic is None or the error the message is made of.
Remediation(policyName, properties, diagnostic) ==
    [policyName |-> policyName, properties |-> properties, diagnostic |-> diagnostic]

RemediateResponse(rems) == [t |-> "RemediateResponse", remediations |-> rems]

\* obj[key] for the objects a callback can hold.
PyGetItem(obj, key) ==
    IF obj.t = "_DictSecretsProxy" THEN DictSecretsProxy_getitem(obj, key)
    ELSE IF obj.t = "_ListSecretsProxy" THEN ListSecretsProxy_getitem(obj, key)
    ELSE IF obj.t = "_DictProxy" THEN DictProxy_getitem(obj, key)
    ELSE IF obj.t = "_ListProxy" THEN ListProxy_getitem(obj, key)
    ELSE IF obj.t = "dict"
    THEN IF key.t = "str" /\ key.s \in DOMAIN obj.m THEN obj.m[key.s] ELSE KeyError
    ELSE TypeError

RECURSIVE ReadPath(_, _)
\* obj[path[1]][path[2]]..., or the first exception raised.
ReadPath(obj, path) ==
    IF path = <<>> THEN obj
    ELSE LET v == PyGetItem(obj, Head(path))
         IN  IF IsError(v) THEN v ELSE ReadPath(v, Tail(path))

\* The body of a remediation callback called with args.
RunRemediation(remediate, policy_name, props, provider_props) ==
    LET v == IF remediate.reads = "props" THEN ReadPath(props, remediate.path)
             ELSE IF remediate.reads = "provider" THEN ReadPath(provider_props, remediate.path)
             ELSE None
    IN  IF IsError(v) THEN Outcome(<<>>, v, None)
        ELSE Outcome(<<>>, None,
                     IF remediate.returns = "empty" THEN Dict(EmptyMap)
                     ELSE IF remediate.returns = "props" THEN props
                     ELSE IF remediate.returns = "fresh"
                     THEN Dict(Map1("tag", Str(policy_name)))
                     ELSE None)

\* bool(new_props) with a fault: only None is false.
Truthy_NotNone(v) == v # None

\* bool(new_props) with a fault: every result counts as new properties.
Truthy_Always(v) == TRUE

\* bool(new_props) of if new_props: None and an empty mapping are false.
Truthy(v) ==
    IF v = None THEN FALSE
    ELSE IF v.t = "dict" THEN DOMAIN v.m # {}
    ELSE IF v.t = "_DictSecretsProxy" THEN DictSecretsProxy_len(v) > 0
    ELSE TRUE

\* The policy is not passed over by the continue at the head of the loop of
\* Remediate.
Remediated(policy) ==
    /\ _get_enforcement_level(policy) = "remediate"
    /\ policy.class = "ResourceValidationPolicy"
    /\ has_remediation(policy)

\* new_props of the try statement, or the exception raised: the result of
\* policy.remediate(args), run on a new event loop if it is awaitable.
TryRemediate(policy, props, provider_props) ==
    RunRemediation(policy.remediate, policy.name, props, provider_props)

-----------------------------------------------------------------------------
\* Specification SpecRemediate: one Remediate call on a policy pack, one
\* policy at a step.

RemediateProperties ==
    { Dict(Map1("prefix", Str(UNKNOWN_STRING_VALUE))),
      Dict(Map1("prefix", SecretW(Str("s")))),
      Dict(Map1("k", Dict(Map1("prefix", Str(UNKNOWN_STRING_VALUE))))),
      Dict(Map2("prefix", Str("p"), "k", Dict(Map1("prefix", Str("p"))))),
      Dict(EmptyMap) }

RemediateRequests ==
    { RemediateRequest(p, Dict(Map1("prefix", Str(UNKNOWN_STRING_VALUE)))) :
          p \in RemediateProperties }

Remediations ==
    { ResourceRemediation(FALSE, "nothing", <<>>, r) : r \in {"None", "empty", "props", "fresh"} }
    \cup { ResourceRemediation(a, "props", <<Str("prefix")>>, r) :
               a \in BOOLEAN, r \in {"None", "props", "fresh"} }
    \cup { ResourceRemediation(FALSE, "props", <<Str("k"), Str("prefix")>>, r) :
               r \in {"None", "fresh"} }
    \cup { ResourceRemediation(TRUE, "nothing", <<>>, "fresh"),
           ResourceRemediation(FALSE, "provider", <<Str("prefix")>>, "fresh") }

RemediationPolicies ==
    { RemediationPolicy("", "remediate", r) : r \in Remediations }
    \cup { RemediationPolicy("", NoLevel, ResourceRemediation(FALSE, "nothing", <<>>, "fresh")),
           RemediationPolicy("", "mandatory", ResourceRemediation(FALSE, "nothing", <<>>, "fresh")),
           RemediationPolicy("", "remediate", None),
           Policy("StackValidationPolicy", "", "remediate", "validate",
                  <<Validation(FALSE, <<"report">>)>>) }

RemediationPacks ==
    UNION { { [i \in 1 .. len |-> Named(f[i], i)] : f \in [1 .. len -> RemediationPolicies] } :
            len \in 1 .. MaxPolicies }

InitRemediate ==
    /\ pc = "request"
    /\ rpc = "Remediate"
    /\ request \in RemediateRequests
    /\ policies \in RemediationPacks
    /\ policy_pack_enforcement_level = "remediate"
    /\ policy_pack_config = EmptyMap
    /\ policy_pack_config_enforcement_level = EmptyMap
    /\ NoRemediate
    /\ NoAwait
    /\ NoConfigure
    /\ diagnostics = <<>>
    /\ response = None
    /\ heap = <<>>
    /\ intermediates = <<>>
    /\ urns_to_resources = EmptyMap
    /\ resources = <<>>
    /\ loop_i = 0
    /\ wire = None
    /\ proxy_secrets = FALSE
    /\ typed = None
    /\ decoded = None
    /\ encoded = None
    /\ NoProxy

\* deserialized = deserialize_properties(..., True);
\* props = unknown_checking_proxy(deserialized);
\* provider = self._get_provider_resource(request)
Unmarshal ==
    /\ pc = "request"
    /\ decoded' = deserialize_properties(request.properties, TRUE)
    /\ proxy_secrets' = TRUE
    /\ args_props' = unknown_checking_proxy(decoded')
    /\ provider' = unknown_checking_proxy(deserialize_properties(request.provider, FALSE))
    /\ pc' = "remediations"
    /\ UNCHANGED <<wire, typed, encoded, cursor, op, ret, nwrites, stackVars, analyzeVars,
                   servicerVars, remediations, received, awaitVars,
                   configureVars>>

\* One iteration of for policy in self.__policies. args_props is the local
\* variable props.
RemediatePolicy ==
    /\ pc = "remediations"
    /\ loop_i < Len(policies)
    /\ LET policy == policies[loop_i + 1]
           o == TryRemediate(policy, args_props, provider)
           ser_props == serialize_properties(o.result)
       IN  IF ~Remediated(policy)
           THEN UNCHANGED <<pc, args_props, remediations, received, response>>
           ELSE /\ received' = Append(received, [policyName |-> policy.name, props |-> args_props])
                /\ IF o.raised = None
                   THEN IF Truthy(o.result)
                        THEN /\ args_props' = o.result
                             /\ IF IsError(ser_props)
                                THEN /\ response' = ser_props
                                     /\ pc' = "raised"
                                     /\ UNCHANGED remediations
                                ELSE /\ remediations' =
                                            Append(remediations,
                                                   Remediation(policy.name, ser_props, None))
                                     /\ UNCHANGED <<pc, response>>
                        ELSE UNCHANGED <<pc, args_props, remediations, response>>
                   ELSE IF o.raised.t = "UnknownValueError"
                   THEN /\ remediations' =
                               Append(remediations, Remediation(policy.name, None, o.raised))
                        /\ UNCHANGED <<pc, args_props, response>>
                   ELSE /\ response' = o.raised
                        /\ pc' = "raised"
                        /\ UNCHANGED <<args_props, remediations>>
    /\ loop_i' = loop_i + 1
    /\ UNCHANGED <<request, heap, intermediates, urns_to_resources, resources, rpc, policies,
                   diagnostics, servicerVars, provider, awaitVars, configureVars, codecVars,
                   cursor, op, ret, nwrites>>

\* return proto.RemediateResponse(remediations=remediations)
RespondRemediate ==
    /\ pc = "remediations"
    /\ loop_i = Len(policies)
    /\ response' = RemediateResponse(remediations)
    /\ pc' = "responded"
    /\ UNCHANGED <<rpc, policies, diagnostics, stackVars, codecVars, proxyVars, callVars>>

NextRemediate == Unmarshal \/ RemediatePolicy \/ RespondRemediate

SpecRemediate == InitRemediate /\ [][NextRemediate]_vars

-----------------------------------------------------------------------------
\* Specification SpecAwait: Analyze on one ResourceValidationPolicy given by
\* validate=, one statement of a callback at a step, so that the suspension
\* points of the coroutines show.

MaxValidations == 2

\* The statements of a callback: report_violation(message),
\* await asyncio.sleep(0.1), a read of an unknown property.
Report(message) == [do |-> "report", message |-> message]
Sleep == [do |-> "await"]
ReadUnknown == [do |-> "unknown"]

\* A coroutine object: the callback it was made by (its position in the list
\* validations) and the number of statements it has run.
CoroutineObject(validation, position) == [validation |-> validation, position |-> position]

\* The callbacks of test_multiple_async_nonasync_mix_validate, and two that
\* read an unknown value after their first report.
Callbacks ==
    { Validation(TRUE, <<Report("first"), Sleep, Report("second")>>),
      Validation(TRUE, <<Report("third"), Sleep, Report("fourth")>>),
      Validation(FALSE, <<Report("fifth")>>),
      Validation(FALSE, <<Report("sixth"), Report("seventh")>>),
      Validation(TRUE, <<Report("eighth"), Sleep, ReadUnknown>>),
      Validation(FALSE, <<Report("ninth"), ReadUnknown>>) }

\* The lists of distinct callbacks given as validate=.
CallbackLists ==
    UNION { { f \in [1 .. len -> Callbacks] : \A i, j \in 1 .. len : f[i] = f[j] => i = j } :
            len \in 1 .. MaxValidations }

InitAwait ==
    /\ pc = "validate"
    /\ rpc = "Analyze"
    /\ \E v \in CallbackLists :
          policies = <<Policy("ResourceValidationPolicy", "1", "mandatory", "validate", v)>>
    /\ diagnostics = <<>>
    /\ response = None
    /\ NoStack
    /\ NoServicer
    /\ NoRemediate
    /\ NoAwait
    /\ NoConfigure
    /\ wire = None
    /\ proxy_secrets = FALSE
    /\ typed = None
    /\ decoded = None
    /\ encoded = None
    /\ NoProxy

\* The callbacks of the policy being validated.
TheValidations == policies[1].validations

\* A statement of a callback of the policy, run on the list diags.
RunStatement(act, diags) ==
    IF act.do = "report"
    THEN Outcome(report_violation(diags, policies[1].name,
                                  _get_enforcement_level(policies[1]), act.message),
                 None, None)
    ELSE IF act.do = "unknown"
    THEN Outcome(diags, UnknownValueError(UNKNOWN_STRING_VALUE, <<"prefix">>), None)
    ELSE Outcome(diags, None, None)

RECURSIVE RunStatements(_, _)
\* The body of a function callback, to its end or to the exception raised.
RunStatements(acts, diags) ==
    IF acts = <<>> THEN Outcome(diags, None, None)
    ELSE LET o == RunStatement(Head(acts), diags)
         IN  IF o.raised # None THEN o ELSE RunStatements(Tail(acts), o.diagnostics)

\* except UnknownValueError of Analyze: the diagnostic that the policy
\* can't be run.
CantRunPolicy(diags) ==
    Append(diags, AnalyzeDiagnostic(policies[1].name, "can't run policy", "", "advisory"))

\* One iteration of for validation in validations: the callback is called;
\* a coroutine function returns its coroutine object, not yet run.
CallValidationStep ==
    /\ pc = "validate"
    /\ loop_i < Len(TheValidations)
    /\ LET validation == TheValidations[loop_i + 1]
           o == RunStatements(validation.acts, diagnostics)
       IN  IF validation.is_async
           THEN /\ awaitable_results' =
                       Append(awaitable_results, CoroutineObject(loop_i + 1, 0))
                /\ UNCHANGED <<pc, diagnostics>>
           ELSE IF o.raised = None
           THEN /\ diagnostics' = o.diagnostics
                /\ UNCHANGED <<pc, awaitable_results>>
           ELSE /\ diagnostics' = CantRunPolicy(o.diagnostics)
                /\ pc' = "caught"
                /\ UNCHANGED awaitable_results
    /\ loop_i' = loop_i + 1
    /\ UNCHANGED <<request, heap, intermediates, urns_to_resources, resources, rpc, policies,
                   response, awaited, servicerVars, remediateVars, configureVars,
                   codecVars, proxyVars>>

\* if awaitable_results: return await_all(), which Analyze runs on a new
\* event loop; else validate returns None.
ReturnAwaitable ==
    /\ pc = "validate"
    /\ loop_i = Len(TheValidations)
    /\ IF awaitable_results # <<>>
       THEN pc' = "await_all" /\ awaited' = 1
       ELSE pc' = "completed" /\ UNCHANGED awaited
    /\ UNCHANGED <<awaitable_results, stackVars, analyzeVars, servicerVars, remediateVars,
                   configureVars, codecVars, proxyVars>>

\* The coroutine await_all awaits runs its next statement; an exception of
\* it is raised from await_all as RuntimeError, which Analyze does not catch.
Resume ==
    /\ pc = "await_all"
    /\ LET result == awaitable_results[awaited]
           acts == TheValidations[result.validation].acts
       IN  /\ result.position < Len(acts)
           /\ LET o == RunStatement(acts[result.position + 1], diagnostics)
              IN  /\ diagnostics' = o.diagnostics
                  /\ IF o.raised = None THEN UNCHANGED <<pc, response>>
                     ELSE pc' = "raised" /\ response' = RuntimeError
           /\ awaitable_results' =
                 [awaitable_results EXCEPT ![awaited].position = result.position + 1]
    /\ UNCHANGED <<stackVars, rpc, policies, awaited, servicerVars, remediateVars,
                   configureVars, codecVars, proxyVars>>

\* The coroutine await_all awaits has returned: for result in
\* awaitable_results goes on, or await_all returns.
AwaitNext ==
    /\ pc = "await_all"
    /\ LET result == awaitable_results[awaited]
       IN  result.position = Len(TheValidations[result.validation].acts)
    /\ IF awaited < Len(awaitable_results)
       THEN awaited' = awaited + 1 /\ UNCHANGED pc
       ELSE pc' = "completed" /\ UNCHANGED awaited
    /\ UNCHANGED <<awaitable_results, stackVars, analyzeVars, servicerVars, remediateVars,
                   configureVars, codecVars, proxyVars>>

NextAwait == CallValidationStep \/ ReturnAwaitable \/ Resume \/ AwaitNext

SpecAwait == InitAwait /\ [][NextAwait]_vars

-----------------------------------------------------------------------------
\* Specification SpecConfigure: an Analyze or AnalyzeStack call on one worker
\* of the thread pool while Configure calls are handled on another. The
\* steps are the reads and writes of the fields of the servicer.

MaxConfigures == 2

\* A PolicyConfig of a Configure request.
PolicyConfig(enforcementLevel, properties) ==
    [enforcementLevel |-> enforcementLevel, properties |-> properties]

\* A Configure request: policyConfig maps policy names to their config.
ConfigureRequest(policyConfig) == [policyConfig |-> policyConfig]

ConfigureRequests ==
    { ConfigureRequest(Map2("1", c, "2", c)) :
          c \in { PolicyConfig("disabled", Dict(Map1("v", Str("a")))),
                  PolicyConfig("remediate", Dict(Map1("v", Str("b")))),
                  PolicyConfig("advisory", Dict(EmptyMap)) } }
    \cup { ConfigureRequest(EmptyMap) }

\* The locals config and config_enforcement_level that Configure builds.
ConfigOf(req) == [k \in DOMAIN req.policyConfig |-> req.policyConfig[k].properties]
LevelsOf(req) == [k \in DOMAIN req.policyConfig |-> req.policyConfig[k].enforcementLevel]

\* The pack of the enforcementlevel test: a resource policy and a stack
\* policy that report a violation, with the same level or none.
ScenarioPacks ==
    { <<Policy("ResourceValidationPolicy", "1", l, "validate", <<Validation(FALSE, <<"report">>)>>),
        Policy("StackValidationPolicy", "2", l, "validate", <<Validation(FALSE, <<"report">>)>>)>> :
          l \in {NoLevel, "advisory", "disabled", "mandatory", "remediate"} }

InitConfigure ==
    /\ pc = "level"
    /\ rpc \in {"Analyze", "AnalyzeStack"}
    /\ policies \in ScenarioPacks
    /\ policy_pack_enforcement_level \in {"advisory", "disabled", "mandatory"}
    /\ policy_pack_config = EmptyMap
    /\ policy_pack_config_enforcement_level = EmptyMap
    /\ diagnostics = <<>>
    /\ response = None
    /\ NoStack
    /\ NoRemediate
    /\ NoAwait
    /\ NoConfigure
    /\ wire = None
    /\ proxy_secrets = FALSE
    /\ typed = None
    /\ decoded = None
    /\ encoded = None
    /\ NoProxy

\* Configure up to self.__policy_pack_config = config.
ConfigureConfig ==
    /\ configure_call = None
    /\ Len(configured) < MaxConfigures
    /\ \E req \in ConfigureRequests :
          /\ configure_call' = req
          /\ policy_pack_config' = ConfigOf(req)
    /\ UNCHANGED <<pc, codecVars, proxyVars, stackVars, analyzeVars, remediateVars, awaitVars,
                   policy_pack_enforcement_level, policy_pack_config_enforcement_level,
                   configured, evaluation, evaluations>>

\* self.__policy_pack_config_enforcement_level = config_enforcement_level,
\* and Configure returns.
ConfigureLevels ==
    /\ configure_call # None
    /\ policy_pack_config_enforcement_level' = LevelsOf(configure_call)
    /\ configured' = Append(configured, configure_call)
    /\ configure_call' = None
    /\ UNCHANGED <<pc, codecVars, proxyVars, stackVars, analyzeVars, remediateVars, awaitVars,
                   policy_pack_enforcement_level, policy_pack_config, evaluation, evaluations>>

\* The head of an iteration of for policy in self.__policies:
\* enforcement_level = self._get_enforcement_level(policy), and continue
\* if the policy is not to be evaluated.
GetLevel ==
    /\ pc = "level"
    /\ loop_i < Len(policies)
    /\ LET policy == policies[loop_i + 1]
       IN  IF Evaluated(rpc, policy)
           THEN /\ evaluation' =
                       [enforcement_level |-> _get_enforcement_level(policy),
                        override |->
                            IF policy.name \in DOMAIN policy_pack_config_enforcement_level
                            THEN policy_pack_config_enforcement_level[policy.name]
                            ELSE NoLevel]
                /\ pc' = "config"
                /\ UNCHANGED loop_i
           ELSE /\ loop_i' = loop_i + 1
                /\ UNCHANGED <<pc, evaluation>>
    /\ UNCHANGED <<codecVars, proxyVars, request, heap, intermediates, urns_to_resources,
                   resources, analyzeVars, servicerVars, remediateVars, awaitVars,
                   configure_call, configured, evaluations>>

\* The rest of the iteration: config = self._get_policy_config(policy.name),
\* and the try statement.
GetConfig ==
    /\ pc = "config"
    /\ LET policy == policies[loop_i + 1]
           o == TryValidateAt(rpc, policy, diagnostics, Downgraded(evaluation.enforcement_level))
       IN  /\ evaluations' =
                 Append(evaluations,
                        [policyName |-> policy.name,
                         enforcement_level |-> evaluation.enforcement_level,
                         override |-> evaluation.override,
                         config |-> _get_policy_config(policy.name)])
           /\ IF o.raised = None
              THEN diagnostics' = o.diagnostics /\ pc' = "level" /\ UNCHANGED response
              ELSE IF o.raised.t = "UnknownValueError"
              THEN /\ diagnostics' = Append(o.diagnostics,
                         AnalyzeDiagnostic(policy.name, "can't run policy", "", "advisory"))
                   /\ pc' = "level"
                   /\ UNCHANGED response
              ELSE diagnostics' = o.diagnostics /\ response' = o.raised /\ pc' = "raised"
    /\ evaluation' = None
    /\ loop_i' = loop_i + 1
    /\ UNCHANGED <<codecVars, proxyVars, request, heap, intermediates, urns_to_resources,
                   resources, rpc, policies, servicerVars, remediateVars, awaitVars,
                   configure_call, configured>>

RespondConfigured ==
    /\ pc = "level"
    /\ loop_i = Len(policies)
    /\ response' = AnalyzeResponse(diagnostics)
    /\ pc' = "responded"
    /\ UNCHANGED <<rpc, policies, diagnostics, stackVars, codecVars, proxyVars, callVars>>

NextConfigure ==
    ConfigureConfig \/ ConfigureLevels \/ GetLevel \/ GetConfig \/ RespondConfigured

SpecConfigure == InitConfigure /\ [][NextConfigure]_vars

-----------------------------------------------------------------------------
\* Shapes of wire trees that the round-trip claims speak about.

SigOf(v) == v.m[SPECIAL_SIG_KEY]
IsSigMapping(v) == v.t = "dict" /\ SPECIAL_SIG_KEY \in DOMAIN v.m
IsSecretW(v) == IsSigMapping(v) /\ SigOf(v) = Str(SPECIAL_SECRET_SIG)
IsAssetW(v) == IsSigMapping(v) /\ SigOf(v) = Str(SPECIAL_ASSET_SIG)
IsArchiveW(v) == IsSigMapping(v) /\ SigOf(v) = Str(SPECIAL_ARCHIVE_SIG)

\* The children of a wire value: a list's elements, a mapping's values.
Children(v) ==
    IF v.t = "list" THEN { v.l[i] : i \in DOMAIN v.l }
    ELSE IF v.t = "dict" THEN { v.m[k] : k \in DOMAIN v.m }
    ELSE {}

RECURSIVE Nodes(_)
\* Every value of a wire tree, the root included.
Nodes(v) == {v} \cup UNION { Nodes(c) : c \in Children(v) }

HasSecretW(w) == \E v \in Nodes(w) : IsSecretW(v)

\* Each signature-keyed mapping has the Asset or the Archive signature and
\* exactly one of its discriminating fields.
OneDiscriminator(w) ==
    \A v \in Nodes(w) : IsSigMapping(v) =>
        \/ IsAssetW(v) /\ Cardinality(DOMAIN v.m \cap {"path", "text", "uri"}) = 1
        \/ IsArchiveW(v) /\ Cardinality(DOMAIN v.m \cap {"assets", "path", "uri"}) = 1

\* A signature-keyed mapping carries no key besides the signature key and its
\* field(s).
NoOtherKeys(w) ==
    \A v \in Nodes(w) : IsSigMapping(v) =>
        DOMAIN v.m \subseteq {SPECIAL_SIG_KEY, "path", "text", "uri", "assets", "value"}

\* Every value of an Archive's assets is itself an Asset or Archive mapping.
AssetsHoldAssets(w) ==
    \A v \in Nodes(w) : (IsArchiveW(v) /\ "assets" \in DOMAIN v.m) =>
        \A c \in Children(v.m["assets"]) : IsAssetW(c) \/ IsArchiveW(c)

RECURSIVE StripSecrets(_)
\* The wire tree with every Secret-signature mapping replaced by its value.
StripSecrets(v) ==
    IF v.t = "list" THEN List([i \in DOMAIN v.l |-> StripSecrets(v.l[i])])
    ELSE IF IsSecretW(v) THEN StripSecrets(v.m["value"])
    ELSE IF v.t = "dict" THEN Dict([k \in DOMAIN v.m |-> StripSecrets(v.m[k])])
    ELSE v

RECURSIVE ReadAll(_)
\* What a reader sees who indexes a value at every key and index, to the
\* leaves: the plain tree of the values read.
ReadAll(v) ==
    IF v.t = "_DictSecretsProxy" THEN
        Dict([k \in DOMAIN v.target.m |-> ReadAll(DictSecretsProxy_getitem(v, Str(k)))])
    ELSE IF v.t = "_ListSecretsProxy" THEN
        List([i \in DOMAIN v.target.l |-> ReadAll(ListSecretsProxy_getitem(v, IntV(i - 1)))])
    ELSE IF v.t = "dict" THEN Dict([k \in DOMAIN v.m |-> ReadAll(v.m[k])])
    ELSE IF v.t = "list" THEN List([i \in DOMAIN v.l |-> ReadAll(v.l[i])])
    ELSE v

-----------------------------------------------------------------------------
\* Claims about the codec (specification Spec).

\* C1 as stated: for every wire tree with no Secret-signature mapping in
\* which each signature-keyed mapping has a recognised Asset or Archive
\* signature and exactly one of its discriminating fields, decoding succeeds
\* and encoding the result gives the wire tree back, in both modes.
C1_RoundTripAsStated ==
    (pc # "start" /\ ~HasSecretW(wire) /\ OneDiscriminator(wire)) =>
        /\ ~IsError(decoded)
        /\ pc = "encoded" => encoded = wire

\* C1 amended: the same, for wire trees in which moreover a signature-keyed
\* mapping carries no other key and every value of an Archive's assets is
\* itself an Asset or Archive mapping.
C1_RoundTrip ==
    (pc # "start" /\ ~HasSecretW(wire) /\ OneDiscriminator(wire)
        /\ NoOtherKeys(wire) /\ AssetsHoldAssets(wire)) =>
        /\ ~IsError(decoded)
        /\ pc = "encoded" => encoded = wire

C1_Witness ==
    /\ pc = "encoded"
    /\ proxy_secrets
    /\ ~HasSecretW(wire) /\ OneDiscriminator(wire)
    /\ NoOtherKeys(wire) /\ AssetsHoldAssets(wire)
    /\ \E v \in Nodes(wire) : IsArchiveW(v) /\ "assets" \in DOMAIN v.m
                                /\ \E c \in Children(v.m["assets"]) : IsAssetW(c)
    /\ encoded = wire

C4_ProxyReadsAsRevealed ==
    (pc = "decoded" /\ proxy_secrets /\ ~IsError(deserialize_properties(wire, FALSE))) =>
        /\ ~IsError(decoded)
        /\ ReadAll(decoded) = deserialize_properties(wire, FALSE)

-----------------------------------------------------------------------------
\* Claims about the codec (specification SpecTyped).

\* C2: for every typed property tree built from scalars, lists, mappings,
\* Assets and Archives, with no Secret, encoding succeeds and decoding the
\* encoding gives a tree structurally equal to the original.
C2_TypedRoundTrip ==
    /\ pc # "start" => ~IsError(encoded)
    /\ pc = "decoded" => decoded = typed

C2_Witness ==
    /\ pc = "decoded"
    /\ \E v \in Nodes(typed) : v.t = "list"
          /\ \E c \in Children(v) : c.t = "AssetArchive"
                /\ \E k \in DOMAIN c.assets : c.assets[k].t = "RemoteArchive"
    /\ decoded = typed

-----------------------------------------------------------------------------
\* Claims about the unknown-checking proxy (specification SpecUnknown).

IsSentinel(v) == v.t = "str" /\ v.s \in Sentinels

\* The raw value under key in a raw list or dict.
RawChild(v, key) ==
    IF v.t = "dict" THEN v.m[key.s] ELSE v.l[ListPos(key, Len(v.l))]

RECURSIVE RawAt(_, _)
\* The raw value reached from v by the keys of path.
RawAt(v, path) ==
    IF path = <<>> THEN v ELSE RawAt(RawChild(v, Head(path)), Tail(path))

\* The raw container behind the proxy in hand.
RawInHand == RawAt(decoded, cursor)

\* A key or an index, written out as a string.
KeyStr(key) ==
    IF key.t = "str" THEN key.s
    ELSE CASE key.n = 0 -> "0" [] key.n = 1 -> "1" [] key.n = 2 -> "2" [] key.n = 3 -> "3"
           [] key.n = -1 -> "-1" [] key.n = -2 -> "-2" [] key.n = -3 -> "-3"
           [] key.n = -4 -> "-4"

RECURSIVE PathStrings(_, _)
\* The path from raw value v along the keys of path: each dict key, and the
\* position of each list element, as a string.
PathStrings(v, path) ==
    IF path = <<>> THEN <<>>
    ELSE LET key == Head(path)
             at == IF key.t = "int" THEN IntV(ListPos(key, Len(v.l)) - 1) ELSE key
         IN  <<KeyStr(at)>> \o PathStrings(RawChild(v, key), Tail(path))

RECURSIVE Unwrap(_)
\* The raw tree an unknown-checking proxy stands for.
Unwrap(v) ==
    IF v.t = "_DictProxy" THEN Dict([k \in DOMAIN v.map |-> Unwrap(v.map[k])])
    ELSE IF v.t = "_ListProxy" THEN List([i \in DOMAIN v.elems |-> Unwrap(v.elems[i])])
    ELSE IF v.t = "tuple" THEN [t |-> "tuple", l |-> <<v.l[1], Unwrap(v.l[2])>>]
    ELSE v

\* C5: indexing the proxy at a key or index whose raw value is an unknown
\* sentinel raises UnknownValueError carrying that sentinel and the path from
\* the proxy root: the stringified keys and list positions of the containers
\* passed through, then the key or index as it was given; at any depth.
C5_UnknownRaisesWithPath ==
    (pc = "proxied" /\ op.name = "getitem" /\ IsSentinel(RawChild(RawInHand, op.key))) =>
        ret = UnknownValueError(RawChild(RawInHand, op.key).s,
                                PathStrings(decoded, cursor) \o <<KeyStr(op.key)>>)

C5_Witness ==
    /\ pc = "proxied"
    /\ op.name = "getitem"
    /\ Len(cursor) = 2
    /\ cursor[2].t = "int"
    /\ op.key = IntV(1)
    /\ ret.t = "UnknownValueError"
    /\ ret.unknown_type_sentinel = UNKNOWN_OBJECT_VALUE
    /\ ret.props = <<"k", "0", "1">>

\* C6: the check is lazy. Building the proxy over a tree holding sentinels
\* succeeds and stands for the same tree; the length of a wrapped container
\* and the keys of a wrapped mapping are those of the raw container; reading
\* a value that is not a sentinel returns it (a container as a proxy of it);
\* and UnknownValueError comes only from reading an element whose raw value
\* is a sentinel (by indexing, or by the read a membership test makes).
C6_LazyCheck ==
    pc = "proxied" =>
        /\ Unwrap(args_props) = decoded
        /\ op.name = "len" =>
              ret = IntV(IF RawInHand.t = "dict" THEN Cardinality(DOMAIN RawInHand.m)
                         ELSE Len(RawInHand.l))
        /\ op.name = "keys" =>
              /\ ret.t = "list"
              /\ { ret.l[i] : i \in DOMAIN ret.l } = { Str(k) : k \in DOMAIN RawInHand.m }
              /\ Len(ret.l) = Cardinality(DOMAIN RawInHand.m)
        /\ (op.name = "getitem" /\ ~IsSentinel(RawChild(RawInHand, op.key))) =>
              Unwrap(ret) = RawChild(RawInHand, op.key)
        /\ ret.t = "UnknownValueError" =>
              op.name \in {"getitem", "contains"} /\ IsSentinel(RawChild(RawInHand, op.key))
        /\ (ret.t = "iteration" /\ ret.raised # None) =>
              /\ ret.raised.t = "UnknownValueError"
              /\ \E c \in Children(RawInHand) : c = Str(ret.raised.unknown_type_sentinel)

C6_Witness ==
    /\ pc = "proxied"
    /\ op.name = "getitem"
    /\ ret = Str("v")
    /\ cursor # <<>>
    /\ \E c \in Children(RawInHand) : IsSentinel(c)

\* The children of a raw container in iteration order, each with its key.
ChildSeq(v) ==
    IF v.t = "list" THEN [i \in DOMAIN v.l |-> [key |-> IntV(i - 1), val |-> v.l[i]]]
    ELSE [i \in DOMAIN KeysOf(v.m) |-> [key |-> Str(KeysOf(v.m)[i]), val |-> v.m[KeysOf(v.m)[i]]]]

\* The position of the first sentinel among the children, 0 if there is none.
FirstUnknown(cs) ==
    IF \E i \in DOMAIN cs : IsSentinel(cs[i].val)
    THEN CHOOSE i \in DOMAIN cs :
            IsSentinel(cs[i].val) /\ \A j \in 1 .. (i - 1) : ~IsSentinel(cs[j].val)
    ELSE 0

\* C7: iterating over the elements of a wrapped list, or the values or items
\* of a wrapped mapping, yields the elements before the first sentinel, in
\* order, and then raises UnknownValueError carrying that sentinel and its
\* path; without a sentinel it yields every element and ends.
C7_IterationRaisesAtFirstUnknown ==
    (pc = "proxied" /\ op.name \in {"elements", "values", "items"}) =>
        LET cs == ChildSeq(RawInHand)
            first == FirstUnknown(cs)
            n == IF first = 0 THEN Len(cs) ELSE first - 1
        IN  /\ ret.t = "iteration"
            /\ Len(ret.yielded) = n
            /\ \A i \in 1 .. n :
                  Unwrap(ret.yielded[i]) =
                      IF op.name = "items" THEN Tuple(cs[i].key, cs[i].val) ELSE cs[i].val
            /\ ret.raised =
                  IF first = 0 THEN None
                  ELSE UnknownValueError(cs[first].val.s,
                          PathStrings(decoded, cursor) \o <<KeyStr(cs[first].key)>>)

C7_Witness ==
    /\ pc = "proxied"
    /\ op.name = "elements"
    /\ Len(ret.yielded) = 2
    /\ ret.raised.t = "UnknownValueError"
    /\ ret.raised.props = <<"k", "2">>

C7_WitnessItems ==
    /\ pc = "proxied"
    /\ op.name = "items"
    /\ Len(ret.yielded) = 1
    /\ ret.raised.t = "UnknownValueError"

-----------------------------------------------------------------------------
\* Claims about the secret-preserving proxy (specification SpecSecrets).

\* A list or a mapping as the proxy of it, any other value as it is.
Rewrapped(v) ==
    IF v.t = "list" THEN ListSecretsProxy(v)
    ELSE IF v.t = "dict" THEN DictSecretsProxy(v)
    ELSE v

\* C8 as stated: no read through the secret-preserving proxy returns a Secret
\* marker: whatever was decoded and written, indexing a slot whose raw value
\* is a Secret returns the Secret's plaintext (a list or mapping as a proxy),
\* and indexing any other slot returns the raw value.
C8_ReadsNeverReturnSecret ==
    (pc = "proxied" /\ op.name = "getitem" /\ op.before # Absent) =>
        /\ ret.t # "Secret"
        /\ ret = Rewrapped(IF op.before.t = "Secret" THEN op.before.value ELSE op.before)

\* C9: writing value y through a mapping proxy at a key whose raw value is a
\* Secret stores Secret(y) in the backing mapping: reading the key then gives
\* y, and encoding the proxy gives a Secret-signature mapping with value y at
\* the key.
C9_DictWriteKeepsSecret ==
    (pc = "proxied" /\ op.name = "setitem" /\ SecretInHand.t = "_DictSecretsProxy"
        /\ op.before.t = "Secret") =>
        /\ Slot(SecretInHand, op.key) = Secret(op.value)
        /\ ReadAll(DictSecretsProxy_getitem(SecretInHand, op.key)) = op.value
        /\ serialize_properties(SecretInHand).m[op.key.s] = SecretW(op.value)

C9_Witness ==
    /\ pc = "proxied"
    /\ op.name = "setitem"
    /\ cursor # <<>>
    /\ SecretInHand.t = "_DictSecretsProxy"
    /\ op.before.t = "Secret"
    /\ op.value = List(<<Str("y")>>)
    /\ Slot(SecretInHand, op.key) = Secret(op.value)

\* C10 as stated: writing value y through a list proxy at an index whose raw
\* element is a Secret stores Secret(y) at that index of the backing list,
\* for every list content and every valid index.
C10_ListWriteKeepsSecret ==
    (pc = "proxied" /\ op.name = "setitem" /\ SecretInHand.t = "_ListSecretsProxy"
        /\ op.before.t = "Secret") =>
        Slot(SecretInHand, op.key) = Secret(op.value)

\* The slots of a raw tree that hold a Secret marker, each as the path of keys
\* and indices leading to it (None steps into a Secret's value).
RECURSIVE SecretSlots(_)

SecretSlots(v) ==
    IF v.t = "Secret"
    THEN {<<>>} \cup { <<None>> \o q : q \in SecretSlots(v.value) }
    ELSE IF v.t = "list"
    THEN UNION { { <<IntV(i - 1)>> \o q : q \in SecretSlots(v.l[i]) } : i \in DOMAIN v.l }
    ELSE IF v.t = "dict"
    THEN UNION { { <<Str(k)>> \o q : q \in SecretSlots(v.m[k]) } : k \in DOMAIN v.m }
    ELSE {}

\* C11: replacing a non-secret value never introduces secrecy: a write of a
\* plain value through a mapping or list proxy to a slot whose raw value is
\* not a Secret, or to a key not yet present, stores the value unwrapped, and
\* the set of slots holding a Secret marker does not grow.
C11_PlainWriteStaysPlain ==
    [][(pc = "proxied" /\ nwrites' = nwrites + 1 /\ op'.before.t # "Secret") =>
          /\ Slot(SecretsProxyAt(args_props', cursor'), op'.key) = op'.value
          /\ SecretSlots(args_props'.target) \subseteq SecretSlots(args_props.target)]_vars

C11_Witness ==
    /\ pc = "proxied"
    /\ op.name = "setitem"
    /\ SecretInHand.t = "_ListSecretsProxy"
    /\ op.key = IntV(1)
    /\ op.before = IntV(0)
    /\ Slot(SecretInHand, op.key) = op.value
    /\ Slot(SecretInHand, IntV(0)).t = "Secret"

C11_WitnessNewKey ==
    /\ pc = "proxied"
    /\ op.name = "setitem"
    /\ op.before = Absent
    /\ Slot(SecretInHand, op.key) = op.value
    /\ SecretSlots(args_props.target) # {}

-----------------------------------------------------------------------------
\* Claims about decoding errors and Archives (specification SpecDecode).

\* A signature-keyed mapping the decoder rejects: an unrecognised signature,
\* an Asset without path, text and uri, an Archive without assets, path and
\* uri, or a Secret without value.
Malformed(v) ==
    /\ IsSigMapping(v)
    /\ \/ ~(IsAssetW(v) \/ IsArchiveW(v) \/ IsSecretW(v))
       \/ IsAssetW(v) /\ DOMAIN v.m \cap {"path", "text", "uri"} = {}
       \/ IsArchiveW(v) /\ DOMAIN v.m \cap {"assets", "path", "uri"} = {}
       \/ IsSecretW(v) /\ "value" \notin DOMAIN v.m

RECURSIVE Visited(_)
\* The values of a wire tree met as property values from value v on: v, the
\* elements of a list, the values of a mapping without signature key, the
\* value of a Secret mapping, the values of an Archive's assets.
Visited(v) ==
    {v} \cup
    IF v.t = "list" THEN UNION { Visited(v.l[i]) : i \in DOMAIN v.l }
    ELSE IF v.t # "dict" THEN {}
    ELSE IF ~IsSigMapping(v) THEN UNION { Visited(v.m[k]) : k \in DOMAIN v.m }
    ELSE IF IsSecretW(v) /\ "value" \in DOMAIN v.m THEN Visited(v.m["value"])
    ELSE IF IsArchiveW(v) /\ "assets" \in DOMAIN v.m
    THEN UNION { Visited(v.m["assets"].m[k]) : k \in DOMAIN v.m["assets"].m }
    ELSE {}

\* The property values of a property map.
PropertyValues(w) == UNION { Visited(w.m[k]) : k \in DOMAIN w.m }

\* A decoded value without the secret-preserving proxy around it, if any.
Target(d) == IF IsSecretsProxy(d) THEN d.target ELSE d

\* C12 as stated: decoding fails with AssertionError, with no partial
\* result, whenever any mapping at any depth of the wire tree is malformed,
\* in both decode modes.
C12_MalformedAnywhereIsFatal ==
    (pc # "start" /\ \E v \in Nodes(wire) : Malformed(v)) => decoded = AssertionError

\* C12 amended: decoding fails with AssertionError, with no partial result,
\* whenever a mapping met as a property value is malformed: a value of the
\* property map or, from there on, an element of a list, a value of a
\* mapping without signature key, the value of a Secret mapping or a value
\* of an Archive's assets; in both decode modes.
C12_MalformedValueIsFatal ==
    (pc # "start" /\ \E v \in PropertyValues(wire) : Malformed(v)) =>
        decoded = AssertionError

C12_Witness ==
    /\ pc = "decoded"
    /\ proxy_secrets
    /\ \E v \in PropertyValues(wire) :
          /\ IsSecretW(v) /\ "value" \in DOMAIN v.m
          /\ v.m["value"].t = "list"
          /\ \E c \in Children(v.m["value"]) : Malformed(c) /\ IsArchiveW(c)
    /\ decoded = AssertionError

RECURSIVE ArchivesByPriority(_, _)
\* Wire value w and its decoding d agree on every Archive mapping: with
\* assets the decoding is an AssetArchive; else with path, the FileArchive
\* of the path; else the RemoteArchive of the uri.
ArchivesByPriority(w, dp) ==
    LET d == Target(dp) IN
    IF w.t = "list"
    THEN d.t = "list" /\ \A i \in DOMAIN w.l : ArchivesByPriority(w.l[i], d.l[i])
    ELSE IF w.t # "dict" THEN TRUE
    ELSE IF ~IsSigMapping(w)
    THEN d.t = "dict" /\ \A k \in DOMAIN w.m : ArchivesByPriority(w.m[k], d.m[k])
    ELSE IF IsSecretW(w)
    THEN ArchivesByPriority(w.m["value"], IF d.t = "Secret" THEN d.value ELSE d)
    ELSE IF ~IsArchiveW(w) THEN TRUE
    ELSE IF "assets" \in DOMAIN w.m
    THEN /\ d.t = "AssetArchive"
         /\ \A k \in DOMAIN w.m["assets"].m :
               ArchivesByPriority(w.m["assets"].m[k], d.assets[k])
    ELSE IF "path" \in DOMAIN w.m THEN d = FileArchive(w.m["path"])
    ELSE d = RemoteArchive(w.m["uri"])

\* C13: an Archive mapping decodes by the priority assets, path, uri: with
\* assets to an AssetArchive whatever path or uri it carries, else with path
\* to a FileArchive, else with uri to a RemoteArchive.
C13_ArchivePriority ==
    (pc # "start" /\ ~IsError(decoded)) => ArchivesByPriority(wire, decoded)

C13_Witness ==
    /\ pc = "decoded"
    /\ ~IsError(decoded)
    /\ \E v \in PropertyValues(wire) :
          IsArchiveW(v) /\ {"assets", "path"} \subseteq DOMAIN v.m
    /\ ArchivesByPriority(wire, decoded)

C13_WitnessPathUri ==
    /\ pc = "decoded"
    /\ \E v \in PropertyValues(wire) :
          IsArchiveW(v) /\ {"path", "uri"} \subseteq DOMAIN v.m
    /\ ~IsError(decoded)
    /\ Target(decoded).m["k"].t = "list"
    /\ Target(decoded).m["k"].l[1] = FileArchive(Str("p"))

\* An Archive mapping with assets, one of whose values decodes, in mode ps,
\* to something other than an Asset or an Archive.
BadAssets(v, ps) ==
    /\ IsArchiveW(v) /\ "assets" \in DOMAIN v.m
    /\ \E k \in DOMAIN v.m["assets"].m :
          LET a == _deserialize_property(v.m["assets"].m[k], ps)
          IN  ~IsError(a) /\ ~IsAsset(a) /\ ~IsArchive(a)

RECURSIVE AssetKeysKept(_, _)
\* Wire value w and its decoding d agree on every Archive mapping with
\* assets: the decoding is an AssetArchive over exactly the keys of assets.
AssetKeysKept(w, dp) ==
    LET d == Target(dp) IN
    IF w.t = "list"
    THEN \A i \in DOMAIN w.l : AssetKeysKept(w.l[i], d.l[i])
    ELSE IF w.t # "dict" THEN TRUE
    ELSE IF ~IsSigMapping(w)
    THEN \A k \in DOMAIN w.m : AssetKeysKept(w.m[k], d.m[k])
    ELSE IF IsSecretW(w)
    THEN AssetKeysKept(w.m["value"], IF d.t = "Secret" THEN d.value ELSE d)
    ELSE IF IsArchiveW(w) /\ "assets" \in DOMAIN w.m
    THEN /\ d.t = "AssetArchive"
         /\ DOMAIN d.assets = DOMAIN w.m["assets"].m
         /\ \A k \in DOMAIN d.assets :
               /\ IsAsset(d.assets[k]) \/ IsArchive(d.assets[k])
               /\ AssetKeysKept(w.m["assets"].m[k], d.assets[k])
    ELSE TRUE

\* C14: decoding an Archive mapping with assets fails with AssertionError
\* if a value of assets decodes to something other than an Asset or an
\* Archive (a mapping, a scalar, a list, a Secret marker); otherwise, when
\* the values all decode, it gives an AssetArchive over exactly the keys of
\* assets.
C14_AssetsMustBeAssets ==
    pc # "start" =>
        /\ (\E v \in PropertyValues(wire) : BadAssets(v, proxy_secrets)) =>
               decoded = AssertionError
        /\ ~IsError(decoded) => AssetKeysKept(wire, decoded)
        /\ LET v == wire.m["k"]
           IN  (/\ IsArchiveW(v) /\ "assets" \in DOMAIN v.m
                /\ \A k \in DOMAIN v.m["assets"].m :
                      LET a == _deserialize_property(v.m["assets"].m[k], proxy_secrets)
                      IN  IsAsset(a) \/ IsArchive(a))
               => ~IsError(decoded)

C14_Witness ==
    /\ pc = "decoded"
    /\ proxy_secrets
    /\ \E v \in PropertyValues(wire) :
          /\ BadAssets(v, proxy_secrets)
          /\ \E c \in Children(v.m["assets"]) : IsSecretW(c)
    /\ decoded = AssertionError

C14_WitnessKept ==
    /\ pc = "decoded"
    /\ ~IsError(decoded)
    /\ \E v \in PropertyValues(wire) :
          IsArchiveW(v) /\ "assets" \in DOMAIN v.m
             /\ Cardinality(DOMAIN v.m["assets"].m) = 2
    /\ AssetKeysKept(wire, decoded)

-----------------------------------------------------------------------------
\* Claims about encoding a proxy (specification SpecUnknown).

\* C15 as stated, for the unknown-checking proxy: encoding a tree wrapped in
\* the proxy, at the top level or nested in a plain mapping, succeeds and
\* gives the encoding of the raw tree behind the proxy, unknown sentinels
\* included as plain strings.
C15_ProxyEncodesAsRaw ==
    (pc = "proxied" /\ op.name = "serialize") =>
        /\ ~IsError(encoded)
        /\ encoded = serialize_properties(IF op.key = Bool(TRUE)
                                          THEN Dict(Map1("k", Unwrap(InHand)))
                                          ELSE Unwrap(InHand))

-----------------------------------------------------------------------------
\* Claims about the stack graph (specification SpecStack).

\* The URNs of the request.
RequestUrns == { request[j].urn : j \in DOMAIN request }

\* Two entries of the request share an URN.
SharedUrn == \E j, k \in DOMAIN request : j # k /\ request[j].urn = request[k].urn

\* The last entry of the request with URN u.
LastWith(u) ==
    CHOOSE j \in DOMAIN request :
        request[j].urn = u /\ \A k \in DOMAIN request : k > j => request[k].urn # u

\* The records indexed under those of the URNs that are in the index, in
\* the order of the URNs.
Found(urns) ==
    LET InIndex(u) == u \in DOMAIN urns_to_resources
        kept == SelectSeq(urns, InIndex)
    IN  [j \in DOMAIN kept |-> urns_to_resources[kept[j]]]

\* C16: after assembly the URN index holds the URNs of the request, each
\* with a record of that URN, and for every record: its parent is the
\* record indexed under its raw parent URN if that is in the index and is
\* unset otherwise; its dependencies are the records of its raw dependency
\* URNs that are in the index, in the original order; its
\* property_dependencies are built the same way for each property key. An
\* URN not in the index raises no error: assembly completes.
C16_ReferencesResolved ==
    pc = "assembled" =>
        /\ DOMAIN urns_to_resources = RequestUrns
        /\ \A u \in RequestUrns : heap[urns_to_resources[u].at].urn = u
        /\ \A k \in DOMAIN request :
              LET e == request[k]
                  r == heap[resources[k].at]
              IN  /\ r.parent = IF e.parent \in DOMAIN urns_to_resources
                                THEN urns_to_resources[e.parent] ELSE None
                  /\ r.dependencies = Found(e.dependencies)
                  /\ DOMAIN r.property_dependencies = DOMAIN e.propertyDependencies
                  /\ \A key \in DOMAIN e.propertyDependencies :
                        r.property_dependencies[key] = Found(e.propertyDependencies[key])

C16_Witness ==
    /\ pc = "assembled"
    /\ \E k \in DOMAIN request : heap[resources[k].at].parent = Ref(1)
    /\ \E k \in DOMAIN request :
          /\ request[k].parent = "urn:x"
          /\ heap[resources[k].at].parent = None
          /\ request[k].propertyDependencies["p"] = <<"urn:a", "urn:x", "urn:b">>
          /\ heap[resources[k].at].property_dependencies["p"] = <<Ref(2), Ref(1)>>

\* C17: the resource records handed to the stack validation are as many as
\* the wire entries and in their order: the i-th is the record built from
\* the i-th entry, and none is dropped, duplicated or moved.
C17_OrderPreserved ==
    /\ \A k \in DOMAIN heap :
          heap[k].urn = request[k].urn /\ heap[k].name = request[k].name
    /\ pc = "assembled" =>
          /\ Len(resources) = Len(request)
          /\ \A k \in DOMAIN request : resources[k] = Ref(k)

C17_Witness ==
    /\ pc = "assembled"
    /\ Len(request) = 2
    /\ request[1].parent = request[2].urn
    /\ request[2].dependencies # <<>>
    /\ resources = <<Ref(1), Ref(2)>>

\* C18 as stated: assembly fails with a fatal error when two wire entries
\* of the request share an URN: it never completes.
C18_SharedUrnIsFatal ==
    SharedUrn => pc # "assembled"

\* C18 amended: when two wire entries of the request share an URN, assembly
\* completes without error: the URN index keeps the record of the last
\* entry with that URN, every reference to the URN resolves to that record,
\* and every entry still has its record in the output.
C18_SharedUrnLastWins ==
    (pc = "assembled" /\ SharedUrn) =>
        /\ \A u \in RequestUrns : urns_to_resources[u] = Ref(LastWith(u))
        /\ \A k \in DOMAIN request :
              request[k].parent \in RequestUrns =>
                  heap[k].parent = Ref(LastWith(request[k].parent))
        /\ Len(resources) = Len(request)

C18_Witness ==
    /\ pc = "assembled"
    /\ request[1].urn = "urn:b"
    /\ Len(request) = 2
    /\ request[2].urn = "urn:b"
    /\ request[1].name # request[2].name
    /\ request[2].dependencies = <<"urn:b", "urn:a">>
    /\ heap[2].dependencies = <<Ref(2)>>
    /\ urns_to_resources["urn:b"] = Ref(2)

-----------------------------------------------------------------------------
\* Claims about unknown values met by a policy (specification SpecAnalyze).

\* A validation of the policy reads an unknown value when it is run.
AccessesUnknown(policy) ==
    \E i \in DOMAIN policy.validations :
        \E j \in DOMAIN policy.validations[i].acts : policy.validations[i].acts[j] = "unknown"

\* The policy reports a violation before anything else.
ReportsFirst(policy) ==
    policy.validations # <<>> /\ policy.validations[1].acts[1] = "report"

\* The diagnostics of diags that tell that the policy could not be run.
CantRun(diags, policy) ==
    { k \in DOMAIN diags : /\ diags[k].policyName = policy.name
                           /\ diags[k].message = "can't run policy" }

\* C19 as stated: in Analyze and AnalyzeStack, a policy whose validation
\* meets an unknown value gets exactly one diagnostic, with level ADVISORY
\* and an empty urn; the policies after it are still evaluated, so the call
\* returns a response, and the response holds the violations reported by
\* the other policies.
C19_UnknownIsOneAdvisoryDiagnostic ==
    /\ pc # "raised"
    /\ pc = "responded" =>
          \A i \in DOMAIN policies :
              LET policy == policies[i]
                  diags == response.diagnostics
              IN  Evaluated(rpc, policy) =>
                    /\ AccessesUnknown(policy) =>
                          /\ Cardinality(CantRun(diags, policy)) = 1
                          /\ \A k \in CantRun(diags, policy) :
                                diags[k].enforcementLevel = "advisory" /\ diags[k].urn = ""
                    /\ ReportsFirst(policy) =>
                          \E k \in DOMAIN diags : /\ diags[k].policyName = policy.name
                                                   /\ diags[k].message = "violation"

\* A policy of Analyze given by validate= whose unknown value is read by a
\* coroutine while it is awaited.
AwaitedUnknown(policy) ==
    /\ policy.supplied = "validate"
    /\ \A i \in DOMAIN policy.validations :
          policy.validations[i].is_async
             \/ \A j \in DOMAIN policy.validations[i].acts :
                   policy.validations[i].acts[j] # "unknown"
    /\ \E i \in DOMAIN policy.validations :
          /\ policy.validations[i].is_async
          /\ \E j \in DOMAIN policy.validations[i].acts :
                policy.validations[i].acts[j] = "unknown"

\* C20 as stated: when an asynchronous callback given by validate= (alone
\* or in a list) reads an unknown value while it is awaited, Analyze raises
\* nothing: the policy gets its "can't run policy" diagnostic.
C20_AsyncUnknownDoesNotCrash ==
    \A i \in 1 .. loop_i :
        (rpc = "Analyze" /\ Evaluated(rpc, policies[i]) /\ AwaitedUnknown(policies[i])) =>
            /\ response # RuntimeError
            /\ CantRun(diagnostics, policies[i]) # {}

-----------------------------------------------------------------------------
\* Claims about Remediate (specification SpecRemediate).

\* The policy of the pack that has the name.
PolicyIndex(name) == CHOOSE i \in DOMAIN policies : policies[i].name = name
PolicyNamed(name) == policies[PolicyIndex(name)]

RECURSIVE HoldsUnknownAt(_, _)
\* The keys of path lead through the mappings of the view to a raw value
\* that is an unknown sentinel.
HoldsUnknownAt(view, path) ==
    IF path = <<>> THEN IsSentinel(view)
    ELSE LET d == Target(view)
         IN  /\ d.t = "dict"
             /\ Head(path).s \in DOMAIN d.m
             /\ HoldsUnknownAt(d.m[Head(path).s], Tail(path))

\* The remediations of rems that stand for the policy.
EntriesOf(rems, name) == { j \in DOMAIN rems : rems[j].policyName = name }

\* C21 as stated: in Remediate, when a remediation callback reads, at any
\* depth of args.props, a property whose raw value is an unknown sentinel,
\* the read raises UnknownValueError, and the response holds for the policy
\* a remediation with a "can't run remediation" diagnostic and without
\* replacement properties.
C21_RemediationUnknownIsDiagnosed ==
    \A k \in DOMAIN received :
        LET policy == PolicyNamed(received[k].policyName)
        IN  (/\ policy.remediate.reads = "props"
             /\ HoldsUnknownAt(received[k].props, policy.remediate.path)) =>
                /\ EntriesOf(remediations, policy.name) # {}
                /\ \A j \in EntriesOf(remediations, policy.name) :
                      /\ remediations[j].diagnostic # None
                      /\ remediations[j].properties = None

\* The mapping is one that replaces the properties: not None and not empty.
NonEmptyMapping(v) ==
    /\ v # None
    /\ DOMAIN Target(v).m # {}

\* What the callback run as the k-th returned, when it raised nothing.
Returned(k) ==
    RunRemediation(PolicyNamed(received[k].policyName).remediate, received[k].policyName,
                   received[k].props, provider)

\* The callbacks run before the k-th that returned a non-empty mapping.
Replacing(k) ==
    { j \in 1 .. (k - 1) : Returned(j).raised = None /\ NonEmptyMapping(Returned(j).result) }

\* C27: in Remediate the remediation policies run in the order of the pack;
\* each callback receives as args.props the mapping returned by the latest
\* earlier remediation of the call that returned a non-empty mapping, or the
\* decoded request properties if there is none; the remediations of the
\* response are in the order of the pack too.
C27_RemediationsChain ==
    pc \in {"remediations", "responded"} =>
        /\ \A k \in DOMAIN received :
              /\ received[k].props =
                    IF Replacing(k) = {} THEN unknown_checking_proxy(decoded)
                    ELSE Returned(CHOOSE j \in Replacing(k) : \A h \in Replacing(k) : h <= j).result
              /\ \A j \in 1 .. (k - 1) :
                    PolicyIndex(received[j].policyName) < PolicyIndex(received[k].policyName)
        /\ \A a, b \in DOMAIN remediations :
              a < b => PolicyIndex(remediations[a].policyName)
                          < PolicyIndex(remediations[b].policyName)

\* Two remediations ran; the second received the dict the first returned,
\* and both have their remediation in the list.
C27_Witness ==
    /\ pc = "responded"
    /\ Len(received) = 2
    /\ received[2].props = Dict(Map1("tag", Str("1")))
    /\ Len(response.remediations) = 2
    /\ response.remediations[2].policyName = "2"

\* The second policy received what the first had returned and returned it
\* again.
C27_WitnessSkipsEmpty ==
    /\ Len(received) = 2
    /\ received[2].props # unknown_checking_proxy(decoded)
    /\ PolicyNamed(received[2].policyName).remediate.returns = "props"
    /\ Len(remediations) = 2

\* The policy of the iteration about to be made.
ThisPolicy == policies[loop_i + 1]

\* The iteration about to be made runs a remediation that raises nothing
\* and returns None or an empty mapping.
ReturnsNothing ==
    /\ pc = "remediations"
    /\ loop_i < Len(policies)
    /\ Remediated(ThisPolicy)
    /\ LET o == RunRemediation(ThisPolicy.remediate, ThisPolicy.name, args_props, provider)
       IN  o.raised = None /\ ~NonEmptyMapping(o.result)

\* C28: in Remediate a remediation callback that returns nothing or an empty
\* mapping, and raises no UnknownValueError, adds no remediation and leaves
\* the properties handed to the next remediation policies as they are.
C28_NothingReturnedNothingChanged ==
    [][ReturnsNothing => (remediations' = remediations /\ args_props' = args_props)]_vars

\* The first policy returned an empty dict, the second one replaced the
\* properties: one remediation, of the second policy.
C28_Witness ==
    /\ pc = "responded"
    /\ Len(received) = 2
    /\ PolicyNamed(received[1].policyName).remediate.returns = "empty"
    /\ received[2].props = received[1].props
    /\ Len(response.remediations) = 1
    /\ response.remediations[1].policyName = received[2].policyName

-----------------------------------------------------------------------------
\* Claims about the callbacks of one policy (specification SpecAwait).

\* The messages a callback reports, in the order of its statements.
RECURSIVE MessagesOf(_)
MessagesOf(acts) ==
    IF acts = <<>> THEN <<>>
    ELSE IF Head(acts).do = "report" THEN <<Head(acts).message>> \o MessagesOf(Tail(acts))
    ELSE MessagesOf(Tail(acts))

\* The messages of the diagnostics that are among those of msgs, in the
\* order of the list diagnostics.
RECURSIVE ReportedAmong(_, _)
ReportedAmong(diags, msgs) ==
    IF diags = <<>> THEN <<>>
    ELSE IF \E j \in DOMAIN msgs : msgs[j] = Head(diags).message
    THEN <<Head(diags).message>> \o ReportedAmong(Tail(diags), msgs)
    ELSE ReportedAmong(Tail(diags), msgs)

\* The number of report_violation calls of the callbacks.
RECURSIVE NumberOfReports(_)
NumberOfReports(validations) ==
    IF validations = <<>> THEN 0
    ELSE Len(MessagesOf(Head(validations).acts)) + NumberOfReports(Tail(validations))

\* C22: every report_violation call of a validation callback of a policy
\* appends one diagnostic, so that all the violations reported are there
\* when the validation completes; those of one callback, a function or an
\* awaited coroutine, are in the order the callback reported them, also
\* across its suspension points.
C22_AllReportedInCallbackOrder ==
    pc = "completed" =>
        /\ Len(diagnostics) = NumberOfReports(TheValidations)
        /\ \A i \in DOMAIN TheValidations :
              ReportedAmong(diagnostics, MessagesOf(TheValidations[i].acts))
                 = MessagesOf(TheValidations[i].acts)

\* Two coroutines that report before and after their suspension point have
\* completed.
C22_Witness ==
    /\ pc = "completed"
    /\ Len(awaitable_results) = 2
    /\ Len(diagnostics) = 4
    /\ \E k \in DOMAIN diagnostics : diagnostics[k].message = "fourth"

\* A function and a coroutine have completed.
C22_WitnessMixed ==
    /\ pc = "completed"
    /\ Len(awaitable_results) = 1
    /\ Len(TheValidations) = 2
    /\ Len(diagnostics) = 3

Started(c) == awaitable_results[c].position > 0
Completed(c) ==
    awaitable_results[c].position = Len(TheValidations[awaitable_results[c].validation].acts)

-----------------------------------------------------------------------------
\* Claims about enforcement levels and Configure (specification
\* SpecConfigure).

\* The level of the policy as the claim gives it: the level the latest
\* Configure call that has returned set for its name, else its own level,
\* else the level of the pack.
EffectiveLevel(policy) ==
    IF configured # <<>> /\ policy.name \in DOMAIN configured[Len(configured)].policyConfig
    THEN configured[Len(configured)].policyConfig[policy.name].enforcementLevel
    ELSE IF policy.enforcement_level # NoLevel THEN policy.enforcement_level
    ELSE policy_pack_enforcement_level

\* C24: Analyze and AnalyzeStack never invoke the validation of a policy
\* whose effective enforcement level is DISABLED; the effective level is the
\* override the latest Configure call set for the policy name if there is
\* one, else the policy's own level if set, else the level of the pack.
C24_DisabledNeverValidated ==
    [][(pc = "level" /\ pc' = "config")
          => EffectiveLevel(policies[loop_i + 1]) # "disabled"]_vars

\* A policy that is mandatory by itself is passed over by Analyze, since
\* the latest Configure call disabled it.
C24_Witness ==
    /\ pc = "responded"
    /\ rpc = "Analyze"
    /\ policies[1].enforcement_level = "mandatory"
    /\ configured # <<>>
    /\ EffectiveLevel(policies[1]) = "disabled"
    /\ evaluations = <<>>
    /\ response.diagnostics = <<>>

\* A policy that is disabled by itself is validated, since the latest
\* Configure call gave it a level.
C24_WitnessEnabled ==
    /\ rpc = "Analyze"
    /\ policies[1].enforcement_level = "disabled"
    /\ Len(configured) = 2
    /\ \E k \in DOMAIN evaluations :
          evaluations[k].policyName = "1" /\ evaluations[k].enforcement_level = "advisory"

\* A policy without level of a pack that is disabled is passed over.
C24_WitnessPassedOver ==
    /\ pc = "responded"
    /\ rpc = "AnalyzeStack"
    /\ policies[2].enforcement_level = NoLevel
    /\ policy_pack_enforcement_level = "disabled"
    /\ configured = <<>>
    /\ evaluations = <<>>

\* C25: every violation that Analyze or AnalyzeStack reports for a policy
\* whose effective enforcement level is REMEDIATE has the level MANDATORY,
\* and no diagnostic of their responses has the level REMEDIATE.
C25_RemediateReportedAsMandatory ==
    /\ \A k \in DOMAIN diagnostics : diagnostics[k].enforcementLevel # "remediate"
    /\ \A e \in DOMAIN evaluations :
          evaluations[e].enforcement_level = "remediate" =>
              \A k \in DOMAIN diagnostics :
                  (/\ diagnostics[k].policyName = evaluations[e].policyName
                   /\ diagnostics[k].message = "violation")
                      => diagnostics[k].enforcementLevel = "mandatory"

\* A stack policy made REMEDIATE by Configure has reported its violation.
C25_Witness ==
    /\ pc = "responded"
    /\ rpc = "AnalyzeStack"
    /\ policies[2].enforcement_level = "advisory"
    /\ \E e \in DOMAIN evaluations : evaluations[e].enforcement_level = "remediate"
    /\ Len(response.diagnostics) = 1

\* A resource policy that has the level REMEDIATE by itself.
C25_WitnessOwnLevel ==
    /\ pc = "responded"
    /\ rpc = "Analyze"
    /\ policies[1].enforcement_level = "remediate"
    /\ configured = <<>>
    /\ Len(response.diagnostics) = 1

\* What an evaluation of the policy would be made with if the request were
\* the only state of the servicer, or with no request the state before the
\* first Configure call.
OverrideBy(req, name) ==
    IF name \in DOMAIN req.policyConfig THEN req.policyConfig[name].enforcementLevel
    ELSE NoLevel
ConfigBy(req, name) ==
    IF name \in DOMAIN req.policyConfig /\ req.policyConfig[name].properties # Dict(EmptyMap)
    THEN req.policyConfig[name].properties
    ELSE None

\* C29 as stated: when Configure runs on a worker while an Analyze or
\* AnalyzeStack call runs on another, every evaluation of a policy in the
\* call uses an enforcement-level override and a policy config that come
\* from the same Configure request, or both from the state before the first
\* Configure call.
C29_LevelAndConfigOfOneRequest ==
    \A e \in DOMAIN evaluations :
        \/ evaluations[e].override = NoLevel /\ evaluations[e].config = None
        \/ \E req \in ConfigureRequests :
              /\ evaluations[e].override = OverrideBy(req, evaluations[e].policyName)
              /\ evaluations[e].config = ConfigBy(req, evaluations[e].policyName)

-----------------------------------------------------------------------------
\* Claims about values the encoder does not support (specification
\* SpecEncode).

\* The values a value holds directly.
Held(v) ==
    IF v.t = "list" THEN {v.l[i] : i \in DOMAIN v.l}
    ELSE IF v.t = "dict" THEN {v.m[k] : k \in DOMAIN v.m}
    ELSE IF v.t = "Secret" THEN {v.value}
    ELSE IF v.t \in {"FileAsset", "FileArchive"} THEN {v.path}
    ELSE IF v.t = "StringAsset" THEN {v.text}
    ELSE IF v.t \in {"RemoteAsset", "RemoteArchive"} THEN {v.uri}
    ELSE IF v.t = "AssetArchive" THEN {v.assets[k] : k \in DOMAIN v.assets}
    ELSE IF v.t \in {"_DictSecretsProxy", "_ListSecretsProxy"} THEN {v.target}
    ELSE IF v.t = "_DictProxy" THEN {v.map[k] : k \in DOMAIN v.map}
    ELSE IF v.t = "_ListProxy" THEN {v.elems[i] : i \in DOMAIN v.elems}
    ELSE {}

RECURSIVE Contained(_)
\* The value and all the values it holds, at any depth.
Contained(v) == {v} \cup UNION { Contained(c) : c \in Held(v) }

\* Not a proxy, list, Asset, Archive, Secret or mapping, nor a primitive of
\* the wire format.
Unsupported(v) == v.t \in {"tuple", "set"}

\* C26 as stated: encoding fails with a TypeError that names the runtime
\* type of the offending value, and returns no partial wire tree, whenever
\* the value encoded contains at any depth a value that is not a proxy,
\* list, Asset, Archive, Secret, mapping or primitive of the wire format.
C26_UnsupportedIsTypeError ==
    (pc # "start" /\ \E v \in Contained(typed) : Unsupported(v)) =>
        /\ encoded.t = "TypeError"
        /\ \E v \in Contained(typed) : Unsupported(v) /\ encoded = TypeErrorNaming(v.t)

-----------------------------------------------------------------------------
\* Claims about key membership in the unknown-checking proxy (specification
\* SpecUnknown).

\* C30: key in proxy, for a mapping proxy, reads the element: it is False if
\* the key is absent, True if the key is there with a known value, and it
\* raises UnknownValueError with the full path of the key if the raw value
\* at the key is an unknown sentinel.
C30_MembershipReadsTheElement ==
    (pc = "proxied" /\ op.name = "contains") =>
        IF op.key.s \notin DOMAIN RawInHand.m THEN ret = Bool(FALSE)
        ELSE IF IsSentinel(RawChild(RawInHand, op.key))
        THEN ret = UnknownValueError(RawChild(RawInHand, op.key).s,
                                     PathStrings(decoded, cursor) \o <<KeyStr(op.key)>>)
        ELSE ret = Bool(TRUE)

\* The membership test of a key of a nested mapping whose value is unknown.
C30_Witness ==
    /\ pc = "proxied"
    /\ op.name = "contains"
    /\ Len(cursor) > 0
    /\ ret.t = "UnknownValueError"
    /\ Len(ret.props) = Len(cursor) + 1

\* The membership test of an absent key, and of a key with a known value.
C30_WitnessAbsent ==
    /\ pc = "proxied"
    /\ op = Op("contains", Str("zz"))
    /\ ret = Bool(FALSE)

C30_WitnessKnown ==
    /\ pc = "proxied"
    /\ op.name = "contains"
    /\ ret = Bool(TRUE)

====
